---- MODULE Spec2Model ----
(***************************************************************************)
(* State-machine model of the simulation engines of the portfolio site:    *)
(* the soft-body (Verlet) solver, the Fourier epicycle engine, the PID     *)
(* control loop and the two double-pendulum variants.                      *)
(*                                                                         *)
(* JavaScript numbers are modelled in fixed point.  Lengths are in         *)
(* hundredths of a pixel (cpx), angles in micro-radians (PID: milli-       *)
(* radians), times in milliseconds; every product is followed by a         *)
(* division rounded to nearest (RDiv), which stands for the rounding of    *)
(* the floating-point operation.                                           *)
(***************************************************************************)
EXTENDS Integers, Sequences, FiniteSets, TLC

VARIABLES
    \* ---- soft body (src/unnamed/part_002)
    particles,        \* SoftBodySimulation.particles: Seq of Particle
    springs,          \* SoftBodySimulation.springs: Seq of Spring
    stiffness,        \* SoftBodySimulation.stiffness (hundredths)
    draggedParticle,  \* index into particles, 0 for null
    sbTicks,          \* solver ticks run so far (bounded by MaxTicks)
    sbClicks,         \* mousedown events so far (bounded by MaxClicks)
    blastAt,          \* the (x, y) of the latest applyExplosion(x, y)
    \* ---- Fourier engine (src/fourier.js)
    state,            \* FourierSimulation.state
    drawing,          \* points collected from the pointer
    fourierX,         \* DFT components, sorted by amplitude
    path,             \* reconstructed path, newest first
    time,             \* reconstruction time (micro-radians)
    isMouseDown,
    timers,           \* pending setTimeout(() => this.computeDFT(), 10) calls
    rafQueue,         \* callbacks handed to requestAnimationFrame, oldest first
    \* ---- PID engine (src/unnamed/part_001); angles in milli-radians
    gains,            \* [kp, ki, kd] of PIDSimulation.pid (hundredths)
    prevError,        \* pid.prevError
    integral,         \* pid.integral (milli-radian seconds)
    angle,            \* system.angle
    velocity,         \* system.velocity (milli-radians per second)
    setpoint,         \* PIDSimulation.setpoint
    isDragging,
    lastTime,         \* timestamp of the latest frame (ms)
    lastDt,           \* dt of the latest PID.update call (ms)
    historyLen,       \* history.length
    pidInput,         \* the error handed to the latest PID.update call
    controlOutput,    \* the value the latest PID.update call returned (milli-units)
    pidCalls,         \* PID.update calls since the construction or the latest reset()
    pidNaN,           \* the fields among the above that hold NaN
    wrapLoop,         \* the loops wrapping system.angle at the end of update(dt):
                      \* [running, raw], running while update has not left them
    \* ---- double pendulum (src/pendulum.js); angles in micro-radians
    variant,          \* which DoublePendulum class is loaded: "RK4" or "Euler"
    a1,               \* angle 1
    a2,               \* angle 2
    a1_v,             \* angular velocity 1 (micro-radians per second)
    a2_v,             \* angular velocity 2
    isPaused,
    dragging,         \* "none" for null, "bob1" or "bob2"
    pendLastTime,     \* DoublePendulum.lastTime (ms)
    traceLen,         \* trace.length
    pendSteps,        \* integration steps run by the latest update(dt)
    pendDt,           \* the dt of the latest update(dt) (microseconds)
    pendSubDt,        \* the size of each of those steps (microseconds)
    pendFrames,       \* frames run so far (bounded by MaxPendFrames)
    \* ---- Lorenz attractor (src/pendulum.js); x, y, z in thousandths
    lorenzParams,     \* [sigma, rho, beta] of LorenzSimulation (thousandths)
    lorenz,           \* [x, y, z]: the state of the system
    points,           \* LorenzSimulation.points, oldest first
    camera,           \* [angleX, angleY] (milli-radians) and lastMouse (px)
    lorenzDragging,   \* LorenzSimulation.isDragging
    lorenzSteps,      \* step(dt) calls so far
    lorenzMoves,      \* mousemove events so far (bounded by MaxLorenzMoves)
    \* ---- game of life (src/gameoflife.js, src/unnamed/part_000)
    grid,             \* GameOfLife.grid: grid[col][row] is 0 (dead) or 1 (alive)
    nextGrid,         \* GameOfLife.nextGrid: the buffer update() writes
    golGen,           \* update() calls so far (bounded by MaxGenerations)
    \* ---- all engines
    op                \* the handler that ran last ("init" after construction)

sbVars == <<particles, springs, stiffness, draggedParticle, sbTicks, sbClicks, blastAt>>

fVars == <<state, drawing, fourierX, path, time, isMouseDown, timers, rafQueue>>

pidVars == <<gains, prevError, integral, angle, velocity, setpoint, isDragging,
             lastTime, lastDt, historyLen, pidInput, controlOutput, pidCalls, pidNaN, wrapLoop>>

pendVars == <<variant, a1, a2, a1_v, a2_v, isPaused, dragging, pendLastTime,
              traceLen, pendSteps, pendDt, pendSubDt, pendFrames>>

lorenzVars == <<lorenzParams, lorenz, points, camera, lorenzDragging, lorenzSteps,
                lorenzMoves>>

golVars == <<grid, nextGrid, golGen>>

vars == <<sbVars, fVars, pidVars, pendVars, lorenzVars, golVars, op>>

\* an engine's handlers leave the other engines alone
OnlySoftBody == UNCHANGED <<fVars, pidVars, pendVars, lorenzVars, golVars>>
OnlyFourier == UNCHANGED <<sbVars, pidVars, pendVars, lorenzVars, golVars>>
OnlyPID == UNCHANGED <<sbVars, fVars, pendVars, lorenzVars, golVars>>
OnlyPendulum == UNCHANGED <<sbVars, fVars, pidVars, lorenzVars, golVars>>
OnlyLorenz == UNCHANGED <<sbVars, fVars, pidVars, pendVars, golVars>>
OnlyGol == UNCHANGED <<sbVars, fVars, pidVars, pendVars, lorenzVars>>

-----------------------------------------------------------------------------
(* Fixed-point arithmetic                                                  *)

Abs(a) == IF a < 0 THEN -a ELSE a

\* a / b rounded to the nearest integer (b > 0), halves away from zero
RDiv(a, b) == IF a >= 0 THEN (2 * a + b) \div (2 * b) ELSE -((2 * (-a) + b) \div (2 * b))

RECURSIVE SqrtIter(_, _, _)
SqrtIter(n, lo, hi) ==
    IF hi - lo <= 1 THEN lo
    ELSE CHOOSE r \in { IF mid * mid <= n THEN SqrtIter(n, mid, hi) ELSE SqrtIter(n, lo, mid) :
                          mid \in {(lo + hi) \div 2} } : TRUE

\* Math.sqrt on a non-negative integer: the integer square root
ISqrt(n) == IF n <= 0 THEN 0 ELSE SqrtIter(n, 0, 46341)

\* Math.hypot / Math.sqrt(dx*dx + dy*dy); large arguments are scaled down
\* before squaring so that the squares stay in range
RECURSIVE Hypot(_, _)
Hypot(dx, dy) ==
    IF Abs(dx) > 30000 \/ Abs(dy) > 30000
    THEN 4 * Hypot(RDiv(dx, 4), RDiv(dy, 4))
    ELSE CHOOSE h \in { IF (r + 1) * (r + 1) - (dx * dx + dy * dy) < (dx * dx + dy * dy) - r * r
                          THEN r + 1 ELSE r :
                          r \in {ISqrt(dx * dx + dy * dy)} } : TRUE

\* a * b / c rounded, computed without leaving 32 bits (c > 0)
MulDiv(a, b, c) ==
    LET m == Abs(a)
        n == Abs(b)
        r == (m \div c) * n + RDiv((m % c) * n, c)
    IN  IF (a < 0) = (b < 0) THEN r ELSE -r

\* pi and 2 pi in micro-radians (pi is kept even so that pi/2 + pi/2 = pi)
PiU == 3141592
TwoPiU == 2 * PiU
HalfPiU == PiU \div 2

\* 1000 * sin(x) for x in [0, pi] micro-radians (Bhaskara's rational approximation)
SinHalfTurn(x) ==
    LET xm == RDiv(x, 1000)
        p == xm * (3142 - xm)
    IN  IF p <= 0 THEN 0 ELSE RDiv(16 * p, RDiv(49360820 - 4 * p, 1000))

\* Math.sin(x), x in micro-radians, result in thousandths
SinU(x) ==
    LET r == x % TwoPiU
    IN  IF r < PiU THEN SinHalfTurn(r) ELSE -SinHalfTurn(r - PiU)

\* Math.cos(x), x in micro-radians, result in thousandths
CosU(x) == SinU(x + HalfPiU)

\* atan(z / 1000) in micro-radians for 0 <= z <= 1000
AtanUnit(z) ==
    RDiv(785398 * z, 1000) + RDiv(z * (1000 - z) * (2447 + RDiv(663 * z, 1000)), 10000)

\* Math.atan2(y, x) in micro-radians, in (-pi, pi]
Atan2U(y, x) ==
    LET ay == Abs(y)
        ax == Abs(x)
        a == IF ax = 0 /\ ay = 0 THEN 0
             ELSE IF ay <= ax THEN AtanUnit(RDiv(1000 * ay, ax))
             ELSE HalfPiU - AtanUnit(RDiv(1000 * ax, ay))
        b == IF x < 0 THEN PiU - a ELSE a
    IN  IF y < 0 THEN -b ELSE b

-----------------------------------------------------------------------------
(* Soft body: Particle and Spring (src/unnamed/part_002)                   *)

Gravity == 500          \* this.gravity, px/s^2
Friction == 99          \* this.friction = 0.99, in hundredths
Bounce == 80            \* const bounce = 0.8, in hundredths
FrameDt == 16           \* this.update(0.016), in ms
InitStiffness == 50     \* this.stiffness = 0.5, in hundredths
SpringStiffness == 80   \* new Spring(.., .., 0.8), in hundredths
Iterations == 5         \* this.iterations
GrabRadius == 5000      \* let minDist = 50 (px), in cpx
BlastRadius == 15000    \* if (d < 150) (px), in cpx
BlastGain == 20         \* (150 - d) * 0.2, in hundredths
FloorY == 59000         \* 600 - 10 (px), in cpx
CeilY == 1000           \* 10 (px), in cpx
RightX == 79000         \* 800 - 10 (px), in cpx
LeftX == 1000           \* 10 (px), in cpx

\* new Particle(x, y, 1)
Particle(x, y) == [x |-> x, y |-> y, oldx |-> x, oldy |-> y, isPinned |-> FALSE]

\* the local vx, vy of Particle.update: implied velocity times friction
VelX(p, friction) == RDiv((p.x - p.oldx) * friction, 100)
VelY(p, friction) == RDiv((p.y - p.oldy) * friction, 100)

\* gravity * dt * dt, in cpx (dt in ms)
GravityStep(dt, gravity) == RDiv(gravity * dt * dt * 100, 1000000)

\* vx * bounce, vy * bounce
ReflectUndamped(v) == v

Reflect(v) == RDiv(v * Bounce, 100)

\* Particle.update(dt, gravity, friction)
ParticleUpdate(p, dt, gravity, friction) ==
    IF p.isPinned THEN p
    ELSE
    LET vx == VelX(p, friction)
        vy == VelY(p, friction)
        \* oldx = x; oldy = y; x += vx; y += vy; y += gravity * dt * dt
        p0 == [p EXCEPT !.oldx = p.x, !.oldy = p.y,
                        !.x = p.x + vx, !.y = p.y + vy + GravityStep(dt, gravity)]
        \* floor
        p1 == IF p0.y > FloorY
              THEN [p0 EXCEPT !.y = FloorY, !.oldy = FloorY + Reflect(vy)]
              ELSE p0
        \* walls
        p2 == IF p1.x > RightX
              THEN [p1 EXCEPT !.x = RightX, !.oldx = RightX + Reflect(vx)]
              ELSE p1
        p3 == IF p2.x < LeftX
              THEN [p2 EXCEPT !.x = LeftX, !.oldx = LeftX + Reflect(vx)]
              ELSE p2
        \* ceiling
        p4 == IF p3.y < CeilY
              THEN [p3 EXCEPT !.y = CeilY, !.oldy = CeilY + Reflect(vy)]
              ELSE p3
    IN  p4

\* new Spring(p1, p2, stiffness): rest length from the current separation
Spring(ps, i, j, k) ==
    [p1 |-> i, p2 |-> j, stiffness |-> k,
     length |-> Hypot(ps[j].x - ps[i].x, ps[j].y - ps[i].y)]

\* diff = (length - dist) / dist * stiffness, in 1/10000
SpringDiff(s, dist) == RDiv((s.length - dist) * s.stiffness * 100, dist)

\* the offset with the opposite sign
SpringOffsetOutward(d, diff) == - RDiv(d * diff, 20000)

\* offset = d * diff * 0.5
SpringOffset(d, diff) == RDiv(d * diff, 20000)

\* if (!this.p1.isPinned), if (!this.p2.isPinned)
MovablePinnedToo(p) == TRUE

Movable(p) == ~p.isPinned

\* the call given up, and the pass with it
SpringSkipAborts(ps) == <<>>

\* if (dist === 0) return;
SpringSkip(ps) == ps

\* Spring.update() on the particle array ps
SpringUpdate(ps, s) ==
    LET dx == ps[s.p2].x - ps[s.p1].x
        dy == ps[s.p2].y - ps[s.p1].y
        dist == Hypot(dx, dy)
    IN  IF dist = 0 THEN SpringSkip(ps)
        ELSE
        LET diff == SpringDiff(s, dist)
            offsetX == SpringOffset(dx, diff)
            offsetY == SpringOffset(dy, diff)
            q1 == IF Movable(ps[s.p1])
                  THEN [ps EXCEPT ![s.p1].x = @ - offsetX, ![s.p1].y = @ - offsetY]
                  ELSE ps
            q2 == IF Movable(q1[s.p2])
                  THEN [q1 EXCEPT ![s.p2].x = @ + offsetX, ![s.p2].y = @ + offsetY]
                  ELSE q1
        IN  q2

-----------------------------------------------------------------------------
(* Soft body: SoftBodySimulation (src/unnamed/part_002)                    *)

JellyCols == 3          \* createJelly(.., .., cols, rows, ..): grid size of the model
JellyRows == 3
JellyStartX == 25000    \* createJelly(250, 100, .., .., 60), in cpx
JellyStartY == 10000
JellySpacing == 6000
MaxTicks == 2           \* solver ticks explored
MaxClicks == 2          \* mousedown events explored

\* the particle array createJelly builds: row by row
JellyParticles(startX, startY, cols, rows, spacing) ==
    [i \in 1..(cols * rows) |->
        Particle(startX + ((i - 1) % cols) * spacing, startY + ((i - 1) \div cols) * spacing)]

\* the springs createJelly pushes for grid cell i (0-based): right, down, two shears
CellSprings(ps, i, cols, rows) ==
    LET x == i % cols
        y == i \div cols
        n == i + 1
    IN  (IF x < cols - 1 THEN <<Spring(ps, n, n + 1, SpringStiffness)>> ELSE <<>>)
        \o (IF y < rows - 1 THEN <<Spring(ps, n, n + cols, SpringStiffness)>> ELSE <<>>)
        \o (IF x < cols - 1 /\ y < rows - 1
            THEN <<Spring(ps, n, n + cols + 1, SpringStiffness),
                   Spring(ps, n + 1, n + cols, SpringStiffness)>>
            ELSE <<>>)

RECURSIVE JellySprings(_, _, _, _)
JellySprings(ps, i, cols, rows) ==
    IF i >= cols * rows THEN <<>>
    ELSE CellSprings(ps, i, cols, rows) \o JellySprings(ps, i + 1, cols, rows)

\* the loop of the mousedown handler: the nearest particle closer than 50, 0 if none
RECURSIVE NearestFrom(_, _, _, _, _)
NearestFrom(ps, pos, i, minDist, nearest) ==
    IF i > Len(ps) THEN nearest
    ELSE LET d == Hypot(ps[i].x - pos.x, ps[i].y - pos.y)
         IN  IF d < minDist THEN NearestFrom(ps, pos, i + 1, d, i)
             ELSE NearestFrom(ps, pos, i + 1, minDist, nearest)

\* no particle ever found
NearestNone(ps, pos) == 0

Nearest(ps, pos) == NearestFrom(ps, pos, 1, GrabRadius, 0)

\* the body with the push applied to the position itself
ExplodePosition(p, x, y) ==
    LET dx == p.x - x
        dy == p.y - y
        d == Hypot(dx, dy)
    IN  IF d < BlastRadius
        THEN LET force == RDiv((BlastRadius - d) * BlastGain, 100)
             IN  [p EXCEPT !.x = @ + RDiv(dx * force, d),
                           !.y = @ + RDiv(dy * force, d)]
        ELSE p

\* the body of applyExplosion for one particle
Explode(p, x, y) ==
    LET dx == p.x - x
        dy == p.y - y
        d == Hypot(dx, dy)
    IN  IF d < BlastRadius
        THEN LET force == RDiv((BlastRadius - d) * BlastGain, 100)
             IN  [p EXCEPT !.oldx = @ - RDiv(dx * force, d),
                           !.oldy = @ - RDiv(dy * force, d)]
        ELSE p

\* applyExplosion(x, y)
ApplyExplosion(ps, x, y) == [i \in 1..Len(ps) |-> Explode(ps[i], x, y)]

\* one relaxation pass: for (let s of this.springs) s.update()
\* (testing q against the empty array makes TLC evaluate each spring's result
\* before it goes on to the next spring)
RECURSIVE SpringPass(_, _, _)
SpringPass(ps, ss, k) ==
    IF k > Len(ss) THEN ps
    ELSE LET q == SpringUpdate(ps, ss[k])
         IN  IF q = <<>> THEN q ELSE SpringPass(q, ss, k + 1)

\* for (let i = 0; i < this.iterations; i++) { one pass }
RECURSIVE Relax(_, _, _)
Relax(ps, ss, n) ==
    IF n = 0 THEN ps
    ELSE LET q == SpringPass(ps, ss, 1)
         IN  IF q = <<>> THEN q ELSE Relax(q, ss, n - 1)

\* the integration pass: for (let p of this.particles) p.update(dt, gravity, friction)
Integrate(ps, dt) == [i \in 1..Len(ps) |-> ParticleUpdate(ps[i], dt, Gravity, Friction)]

\* SoftBodySimulation.update(dt)
SoftBodyUpdate(ps, ss, dt) == Relax(Integrate(ps, dt), ss, Iterations)

\* mousedown positions tried (cpx): on the top-left particle, and above the
\* jelly with no particle within 50 px
DownPts == { [x |-> 26000, y |-> 11000], [x |-> 25000, y |-> 4000] }

\* mousemove positions tried (cpx): inside the box, and below the floor line
MovePts == { [x |-> 20000, y |-> 12000], [x |-> 40000, y |-> 59500] }

\* values of the stiffness slider tried (hundredths)
StiffnessInputs == {100}

\* new SoftBodySimulation(canvas)
InitSoftBody ==
    /\ particles = JellyParticles(JellyStartX, JellyStartY, JellyCols, JellyRows, JellySpacing)
    /\ springs = JellySprings(particles, 0, JellyCols, JellyRows)
    /\ stiffness = InitStiffness
    /\ draggedParticle = 0
    /\ sbTicks = 0
    /\ sbClicks = 0
    /\ blastAt = [x |-> 0, y |-> 0]

\* canvas 'mousedown'
SBMouseDown(pos) ==
    /\ sbClicks < MaxClicks
    /\ sbClicks' = sbClicks + 1
    /\ LET nearest == Nearest(particles, pos)
       IN  IF nearest # 0
           THEN /\ draggedParticle' = nearest
                /\ particles' = [particles EXCEPT ![nearest].isPinned = TRUE]
                /\ UNCHANGED blastAt
           ELSE /\ particles' = ApplyExplosion(particles, pos.x, pos.y)
                /\ blastAt' = pos
                /\ UNCHANGED draggedParticle
    /\ op' = "mousedown"
    /\ UNCHANGED <<springs, stiffness, sbTicks>>
    /\ OnlySoftBody

\* window 'mousemove'
SBMouseMove(pos) ==
    /\ IF draggedParticle # 0
       THEN particles' = [particles EXCEPT ![draggedParticle].x = pos.x,
                                           ![draggedParticle].y = pos.y,
                                           ![draggedParticle].oldx = pos.x,
                                           ![draggedParticle].oldy = pos.y]
       ELSE UNCHANGED particles
    /\ op' = "mousemove"
    /\ UNCHANGED <<springs, stiffness, draggedParticle, sbTicks, sbClicks, blastAt>>
    /\ OnlySoftBody

\* window 'mouseup'
SBMouseUp ==
    /\ IF draggedParticle # 0
       THEN /\ particles' = [particles EXCEPT ![draggedParticle].isPinned = FALSE]
            /\ draggedParticle' = 0
       ELSE UNCHANGED <<particles, draggedParticle>>
    /\ op' = "mouseup"
    /\ UNCHANGED <<springs, stiffness, sbTicks, sbClicks, blastAt>>
    /\ OnlySoftBody

\* 'input' on the stiffness slider
SBStiffnessInput(k) ==
    /\ stiffness' = k
    /\ springs' = [i \in 1..Len(springs) |-> [springs[i] EXCEPT !.stiffness = k]]
    /\ op' = "stiffness"
    /\ UNCHANGED <<particles, draggedParticle, sbTicks, sbClicks, blastAt>>
    /\ OnlySoftBody

\* SoftBodySimulation.animate(): one frame; a hidden canvas skips the update
SBAnimate(hidden) ==
    /\ sbTicks < MaxTicks
    /\ IF hidden
       THEN /\ op' = "animate-hidden"
            /\ UNCHANGED <<particles, sbTicks>>
       ELSE /\ particles' = SoftBodyUpdate(particles, springs, FrameDt)
            /\ sbTicks' = sbTicks + 1
            /\ op' = "update"
    /\ UNCHANGED <<springs, stiffness, draggedParticle, sbClicks, blastAt>>
    /\ OnlySoftBody

\* applyExplosion(x, y) on its own. Points tried (cpx), none within 50 px of a
\* particle (the mousedown handler calls applyExplosion only then): above the
\* top-left particle, at exactly 150 px from the top-left particle, right of the
\* bottom-right particle, above the top-right one, left of the middle row, and
\* far from every particle
BlastPts == { [x |-> 25000, y |-> 4000], [x |-> 13000, y |-> 1000],
              [x |-> 49000, y |-> 28000], [x |-> 40000, y |-> 4000],
              [x |-> 19000, y |-> 16000], [x |-> 2000, y |-> 50000] }

MaxBlasts == 4          \* applyExplosion calls explored

ApplyExplosionCall(pos) ==
    /\ sbClicks < MaxBlasts
    /\ sbClicks' = sbClicks + 1
    /\ particles' = ApplyExplosion(particles, pos.x, pos.y)
    /\ blastAt' = pos
    /\ op' = "applyExplosion"
    /\ UNCHANGED <<springs, stiffness, draggedParticle, sbTicks>>
    /\ OnlySoftBody

NextExplosion == \E pos \in BlastPts : ApplyExplosionCall(pos)

\* the pointer events on their own; mousedown positions tried (cpx): DownPts,
\* a point on the bottom-right particle, and a point at exactly 50 px from the
\* top-left particle of the fresh jelly
GrabPts == DownPts \cup { [x |-> JellyStartX + (JellyCols - 1) * JellySpacing + 100,
                            y |-> JellyStartY + (JellyRows - 1) * JellySpacing + 100],
                           [x |-> JellyStartX - 3000, y |-> JellyStartY - 4000] }

NextPointer ==
    \/ \E pos \in GrabPts : SBMouseDown(pos)
    \/ \E pos \in MovePts : SBMouseMove(pos)
    \/ SBMouseUp

\* the jelly arriving at the floor: it has fallen freely, as a rigid grid, its
\* bottom row at one of these heights (cpx) and every particle with one of
\* these displacements over the last tick
LandingYs == {57000, 58000, 58400, 58600, 58800, 58900, 58950, 59000}
LandingVYs == {100, 300, 500, 800, 1200}

InitLanding ==
    /\ \E y \in LandingYs, vy \in LandingVYs :
          LET ps == JellyParticles(JellyStartX, y - (JellyRows - 1) * JellySpacing,
                                   JellyCols, JellyRows, JellySpacing)
          IN  /\ particles = [i \in 1..Len(ps) |-> [ps[i] EXCEPT !.oldy = @ - vy]]
              /\ springs = JellySprings(ps, 0, JellyCols, JellyRows)
    /\ stiffness = InitStiffness
    /\ draggedParticle = 0
    /\ sbTicks = 0
    /\ sbClicks = 0
    /\ blastAt = [x |-> 0, y |-> 0]

NextLanding == \E hidden \in BOOLEAN : SBAnimate(hidden)

NextSoftBody ==
    \/ \E pos \in DownPts : SBMouseDown(pos)
    \/ \E pos \in MovePts : SBMouseMove(pos)
    \/ SBMouseUp
    \/ \E k \in StiffnessInputs : SBStiffnessInput(k)
    \/ \E hidden \in BOOLEAN : SBAnimate(hidden)


-----------------------------------------------------------------------------
(* Fourier engine: FourierSimulation (src/fourier.js)                      *)

MinPoints == 5          \* if (this.drawing.length > 5)
MaxPoints == 7          \* longest drawing explored
MaxPending == 2         \* most requestAnimationFrame callbacks pending at once

\* pointer positions tried (px)
DrawPts == { [x |-> 100, y |-> 100], [x |-> 300, y |-> 200] }

\* the term with c = new Complex(cos(phi), sin(phi))
DftTermConjugate(pt, phi) ==
    [re |-> pt.x * CosU(phi) - pt.y * SinU(phi),
     im |-> pt.y * CosU(phi) + pt.x * SinU(phi)]

\* one term of the sum in dft: x[n].multiply(new Complex(cos(phi), -sin(phi))),
\* in thousandths of a pixel
DftTerm(pt, phi) ==
    [re |-> pt.x * CosU(phi) + pt.y * SinU(phi),
     im |-> pt.y * CosU(phi) - pt.x * SinU(phi)]

RECURSIVE DftSum(_, _, _)
DftSum(x, k, n) ==
    IF n >= Len(x) THEN [re |-> 0, im |-> 0]
    ELSE LET t == DftTerm(x[n + 1], RDiv(TwoPiU * k * n, Len(x)))
             r == DftSum(x, k, n + 1)
         IN  [re |-> t.re + r.re, im |-> t.im + r.im]

\* X[k] of dft(x)
DftBin(x, k) ==
    LET sum == DftSum(x, k, 0)
        re == RDiv(sum.re, Len(x))
        im == RDiv(sum.im, Len(x))
    IN  [re |-> re, im |-> im, freq |-> k, amp |-> Hypot(re, im), phase |-> Atan2U(im, re)]

\* dft(x)
Dft(x) == [j \in 1..Len(x) |-> DftBin(x, j - 1)]

\* insert c into a sequence kept in ascending amp
RECURSIVE InsertByAmpAscending(_, _)
InsertByAmpAscending(sorted, c) ==
    IF sorted = <<>> THEN <<c>>
    ELSE IF c.amp < Head(sorted).amp THEN <<c>> \o sorted
    ELSE <<Head(sorted)>> \o InsertByAmpAscending(Tail(sorted), c)

\* insert c into a sequence sorted by descending amp, after its equals
RECURSIVE InsertByAmp(_, _)
InsertByAmp(sorted, c) ==
    IF sorted = <<>> THEN <<c>>
    ELSE IF c.amp > Head(sorted).amp THEN <<c>> \o sorted
    ELSE <<Head(sorted)>> \o InsertByAmp(Tail(sorted), c)

\* fourier.sort((a, b) => b.amp - a.amp): stable, descending amplitude
RECURSIVE SortByAmpFrom(_, _, _)
SortByAmpFrom(X, i, sorted) ==
    IF i > Len(X) THEN sorted ELSE SortByAmpFrom(X, i + 1, InsertByAmp(sorted, X[i]))

SortByAmp(X) == SortByAmpFrom(X, 1, <<>>)

\* the point drawEpicycles(0, 0, 0, fourier) returns at time t
RECURSIVE Epicycles(_, _, _)
Epicycles(fourier, t, i) ==
    IF i > Len(fourier) THEN [x |-> 0, y |-> 0]
    ELSE LET c == fourier[i]
             r == Epicycles(fourier, t, i + 1)
         IN  [x |-> RDiv(c.amp * CosU(c.freq * t + c.phase), 1000) + r.x,
              y |-> RDiv(c.amp * SinU(c.freq * t + c.phase), 1000) + r.y]

\* the effect of drawLoop(t) on path: while ANIMATING the new point is unshifted
\* and the path is cut to fourierX.length
DrawLoopPath(st, fx, pth, t) ==
    IF st = "ANIMATING"
    THEN LET p1 == <<Epicycles(fx, t, 1)>> \o pth
         IN  IF Len(p1) > Len(fx) THEN SubSeq(p1, 1, Len(p1) - 1) ELSE p1
    ELSE pth

\* the callback drawLoop(t) leaves with requestAnimationFrame, if any
DrawLoopRequest(st) == IF st # "ANIMATING" THEN <<"drawLoop">> ELSE <<>>

\* the lengths N up to 32 for which 2 * pi / N added N times to 0 in double
\* arithmetic ends above 2 * pi (for every other N the sum ends at or just
\* below 2 * pi)
SumExceedsPeriod == {12, 16, 21, 25, 29, 30, 32}

\* if (this.time > Math.PI * 2) at the end of animate, t1 the time after
\* this.time += dt, a whole number of increments of 2 * pi / N since 0
PastPeriod(t1, N) ==
    LET k == RDiv(t1, RDiv(TwoPiU, N))
    IN  k > N \/ (k = N /\ N \in SumExceedsPeriod)

\* animate(t) as a function of the mutable fields it touches:
\* [time, path, raf] -> [time, path, raf], raf the callbacks requested so far
Animate(st, fx, f) ==
    IF st # "ANIMATING"
    THEN [f EXCEPT !.raf = @ \o <<"drawLoop">>]
    ELSE LET pth == DrawLoopPath(st, fx, f.path, f.time)
             t1 == f.time + RDiv(TwoPiU, Len(fx))
         IN  IF PastPeriod(t1, Len(fx))
             THEN [time |-> 0, path |-> <<>>, raf |-> f.raf \o <<"animate">>]
             ELSE [time |-> t1, path |-> pth, raf |-> f.raf \o <<"animate">>]

\* drawLoop(t) in the same form
DrawLoop(st, fx, f) ==
    [f EXCEPT !.path = DrawLoopPath(st, fx, f.path, f.time),
              !.raf = @ \o DrawLoopRequest(st)]

\* one callback of the frame
RunCallback(cb, st, fx, f) ==
    IF cb = "animate" THEN Animate(st, fx, f) ELSE DrawLoop(st, fx, f)

\* the host runs the callbacks pending at the start of the frame, oldest first
RECURSIVE RunFrame(_, _, _, _, _)
RunFrame(queue, i, st, fx, f) ==
    IF i > Len(queue) THEN f
    ELSE LET g == RunCallback(queue[i], st, fx, f)
         IN  IF g.time < 0 THEN g ELSE RunFrame(queue, i + 1, st, fx, g)

\* new FourierSimulation(canvas): the listeners are registered and nothing is
\* scheduled (the constructor's closing this.draw() names no method of the class)
InitFourier ==
    /\ state = "IDLE"
    /\ drawing = <<>>
    /\ fourierX = <<>>
    /\ path = <<>>
    /\ time = 0
    /\ isMouseDown = FALSE
    /\ timers = 0
    /\ rafQueue = <<>>

\* if (this.state === 'ANIMATING' || this.state === 'IDLE')
StartsDrawingAnywhere(st) == st \in {"ANIMATING", "IDLE", "COMPUTING"}

StartsDrawing(st) == st \in {"ANIMATING", "IDLE"}

\* inputStart(e): mousedown, touchstart
InputStart(pos) ==
    /\ Len(drawing) < MaxPoints \/ StartsDrawing(state)
    /\ IF StartsDrawing(state)
       THEN /\ state' = "DRAWING"
            /\ drawing' = <<pos>>
            /\ fourierX' = <<>>
            /\ path' = <<>>
            /\ time' = 0
       ELSE /\ drawing' = Append(drawing, pos)
            /\ UNCHANGED <<state, fourierX, path, time>>
    /\ isMouseDown' = TRUE
    /\ op' = "inputStart"
    /\ UNCHANGED <<timers, rafQueue>>
    /\ OnlyFourier

\* inputMove(e): mousemove, touchmove
InputMove(pos) ==
    /\ Len(drawing) < MaxPoints
    /\ IF state = "DRAWING" /\ isMouseDown
       THEN drawing' = Append(drawing, pos)
       ELSE UNCHANGED drawing
    /\ op' = "inputMove"
    /\ UNCHANGED <<state, fourierX, path, time, isMouseDown, timers, rafQueue>>
    /\ OnlyFourier

\* if (this.drawing.length > 5)
EnoughPointsFromFive(d) == Len(d) >= MinPoints

EnoughPoints(d) == Len(d) > MinPoints

\* finishDrawing() as a relation on state and timers
FinishDrawing ==
    IF state = "DRAWING"
    THEN IF EnoughPoints(drawing)
         THEN state' = "COMPUTING" /\ timers' = timers + 1
         ELSE state' = "IDLE" /\ UNCHANGED timers
    ELSE UNCHANGED <<state, timers>>

\* inputEnd(): mouseup, touchend
InputEnd ==
    /\ isMouseDown' = FALSE
    /\ FinishDrawing
    /\ op' = "inputEnd"
    /\ UNCHANGED <<drawing, fourierX, path, time, rafQueue>>
    /\ OnlyFourier

\* 'mouseleave': finishDrawing() alone
MouseLeave ==
    /\ FinishDrawing
    /\ op' = "mouseleave"
    /\ UNCHANGED <<drawing, fourierX, path, time, isMouseDown, rafQueue>>
    /\ OnlyFourier

\* the 10 ms timer fires: computeDFT(), which ends in this.animate(0)
ComputeDFT ==
    /\ timers > 0
    /\ Len(rafQueue) < MaxPending
    /\ timers' = timers - 1
    /\ LET fx == SortByAmp(Dft(drawing))
           f == Animate("ANIMATING", fx, [time |-> time, path |-> path, raf |-> rafQueue])
       IN  /\ fourierX' = fx
           /\ state' = "ANIMATING"
           /\ time' = f.time
           /\ path' = f.path
           /\ rafQueue' = f.raf
    /\ op' = "computeDFT"
    /\ UNCHANGED <<drawing, isMouseDown>>
    /\ OnlyFourier

\* a frame of the host: every pending callback runs once
Frame ==
    /\ rafQueue # <<>>
    /\ LET f == RunFrame(rafQueue, 1, state, fourierX,
                         [time |-> time, path |-> path, raf |-> <<>>])
       IN  /\ time' = f.time
           /\ path' = f.path
           /\ rafQueue' = f.raf
    /\ op' = "frame"
    /\ UNCHANGED <<state, drawing, fourierX, isMouseDown, timers>>
    /\ OnlyFourier

\* 'themeChanged': outside ANIMATING the listener calls drawLoop(0)
ThemeChanged ==
    /\ Len(rafQueue) < MaxPending
    /\ IF state # "ANIMATING"
       THEN LET f == DrawLoop(state, fourierX, [time |-> time, path |-> path, raf |-> rafQueue])
            IN  path' = f.path /\ rafQueue' = f.raf
       ELSE UNCHANGED <<path, rafQueue>>
    /\ op' = "themeChanged"
    /\ UNCHANGED <<state, drawing, fourierX, time, isMouseDown, timers>>
    /\ OnlyFourier

NextFourier ==
    \/ \E pos \in DrawPts : InputStart(pos)
    \/ \E pos \in DrawPts : InputMove(pos)
    \/ InputEnd
    \/ MouseLeave
    \/ ComputeDFT
    \/ Frame
    \/ ThemeChanged

\* dft and drawEpicycles on their own: every sequence of RoundTripLen points
\* out of these, transformed and then evaluated at the sample times
RoundTripLen == 4

RoundTripPts == { [x |-> 100, y |-> 100], [x |-> 300, y |-> 200], [x |-> 250, y |-> 40] }

\* t_n = 2 * pi * n / N
SampleTime(n, N) == RDiv(TwoPiU * n, N)

InitRoundTrip ==
    /\ state = "IDLE"
    /\ drawing \in [1..RoundTripLen -> RoundTripPts]
    /\ fourierX = <<>>
    /\ path = <<>>
    /\ time = 0
    /\ isMouseDown = FALSE
    /\ timers = 0
    /\ rafQueue = <<>>

\* this.fourierX = this.dft(complexDrawing); this.fourierX.sort(...)
DftCall ==
    /\ fourierX = <<>>
    /\ fourierX' = SortByAmp(Dft(drawing))
    /\ op' = "dft"
    /\ UNCHANGED <<state, drawing, path, time, isMouseDown, timers, rafQueue>>
    /\ OnlyFourier

\* drawEpicycles(0, 0, 0, this.fourierX) with this.time = t_n
EpicyclesCall(n) ==
    /\ fourierX # <<>>
    /\ time' = SampleTime(n, Len(fourierX))
    /\ path' = <<Epicycles(fourierX, SampleTime(n, Len(fourierX)), 1)>>
    /\ op' = "drawEpicycles"
    /\ UNCHANGED <<state, drawing, fourierX, isMouseDown, timers, rafQueue>>
    /\ OnlyFourier

NextRoundTrip ==
    \/ DftCall
    \/ \E n \in 0..(RoundTripLen - 1) : EpicyclesCall(n)


-----------------------------------------------------------------------------
(* Particle.update and Spring.update on their own: the initial state draws *)
(* the arguments, each step is one call                                    *)

MaxCalls == 2           \* calls explored from each drawn argument

ParticleXs == {1000, 40000, 79000}
ParticleVXs == {-300, 0, 300}
ParticleYs == {1000, 30000, 58000, 58990, 59000, 59500}
ParticleVYs == {-1500, 0, 13, 500, 2000}

InitParticle ==
    /\ \E x \in ParticleXs, vx \in ParticleVXs, y \in ParticleYs, vy \in ParticleVYs,
          pinned \in BOOLEAN :
          particles = <<[x |-> x, y |-> y, oldx |-> x - vx, oldy |-> y - vy,
                         isPinned |-> pinned]>>
    /\ springs = <<>>
    /\ stiffness = InitStiffness
    /\ draggedParticle = 0
    /\ sbTicks = 0
    /\ sbClicks = 0
    /\ blastAt = [x |-> 0, y |-> 0]

\* p.update(0.016, this.gravity, this.friction) on the one particle
ParticleStep ==
    /\ sbTicks < MaxCalls
    /\ particles' = [particles EXCEPT ![1] = ParticleUpdate(particles[1], FrameDt, Gravity, Friction)]
    /\ sbTicks' = sbTicks + 1
    /\ op' = "Particle.update"
    /\ UNCHANGED <<springs, stiffness, draggedParticle, sbClicks, blastAt>>
    /\ OnlySoftBody


\* separations of the two endpoints, rest lengths and stiffnesses tried
SpringSeps == { <<6000, 0>>, <<9000, 0>>, <<3000, 4000>>, <<0, 0>>, <<-4000, 3000>>, <<0, -7000>> }
SpringLengths == {5000, 6000, 8485}
SpringStiffnesses == {50, 80, 100}

InitSpring ==
    /\ \E sep \in SpringSeps, pin1 \in BOOLEAN, pin2 \in BOOLEAN :
          particles = <<[Particle(30000, 30000) EXCEPT !.isPinned = pin1],
                        [Particle(30000 + sep[1], 30000 + sep[2]) EXCEPT !.isPinned = pin2]>>
    /\ \E len \in SpringLengths, k \in SpringStiffnesses :
          springs = <<[p1 |-> 1, p2 |-> 2, stiffness |-> k, length |-> len]>>
    /\ stiffness = InitStiffness
    /\ draggedParticle = 0
    /\ sbTicks = 0
    /\ sbClicks = 0
    /\ blastAt = [x |-> 0, y |-> 0]

\* s.update() on the one spring
SpringStep ==
    /\ sbTicks < MaxCalls
    /\ particles' = SpringUpdate(particles, springs[1])
    /\ sbTicks' = sbTicks + 1
    /\ op' = "Spring.update"
    /\ UNCHANGED <<springs, stiffness, draggedParticle, sbClicks, blastAt>>
    /\ OnlySoftBody

\* one relaxation pass on its own, over three springs with no endpoint in
\* common: the first and the last stretched or squeezed, the middle one with
\* these separations of its endpoints (coincident, or not)
PassSeps == { <<0, 0>>, <<7000, 0>> }

InitPass ==
    /\ \E sepA \in SpringSeps \ {<<0, 0>>}, sepB \in PassSeps, sepC \in SpringSeps,
          pinB \in BOOLEAN :
          particles = <<Particle(30000, 30000), Particle(30000 + sepA[1], 30000 + sepA[2]),
                        [Particle(40000, 40000) EXCEPT !.isPinned = pinB],
                        Particle(40000 + sepB[1], 40000 + sepB[2]),
                        Particle(50000, 20000), Particle(50000 + sepC[1], 20000 + sepC[2])>>
    /\ \E k \in SpringStiffnesses :
          springs = <<[p1 |-> 1, p2 |-> 2, stiffness |-> k, length |-> 6000],
                      [p1 |-> 3, p2 |-> 4, stiffness |-> k, length |-> 6000],
                      [p1 |-> 5, p2 |-> 6, stiffness |-> k, length |-> 6000]>>
    /\ stiffness = InitStiffness
    /\ draggedParticle = 0
    /\ sbTicks = 0
    /\ sbClicks = 0
    /\ blastAt = [x |-> 0, y |-> 0]

\* for (let s of this.springs) { s.update(); }
SpringPassCall ==
    /\ sbTicks < MaxCalls
    /\ particles' = SpringPass(particles, springs, 1)
    /\ sbTicks' = sbTicks + 1
    /\ op' = "springs.update"
    /\ UNCHANGED <<springs, stiffness, draggedParticle, sbClicks, blastAt>>
    /\ OnlySoftBody

\* s.update() on the one spring, pass after pass with no other force
SpringRelax ==
    /\ particles' = SpringUpdate(particles, springs[1])
    /\ op' = "Spring.update"
    /\ UNCHANGED <<springs, stiffness, draggedParticle, sbTicks, sbClicks, blastAt>>
    /\ OnlySoftBody


-----------------------------------------------------------------------------
(* PID engine: PID, RotationalSystem, PIDSimulation (src/unnamed/part_001) *)

PiM == RDiv(PiU, 1000)      \* Math.PI in milli-radians
TwoPiM == 2 * PiM           \* 2 * Math.PI

Inertia == 50               \* this.inertia = 0.5 (hundredths)
Damping == 50               \* this.damping = 0.5 (hundredths)
TorqueScale == 50           \* controlOutput * 50
KnobRadius == 60            \* if (dist < 60)
FirstDt == 16               \* dt of a frame with no earlier timestamp: 0.016 s
MaxDt == 100                \* Math.min(..., 0.1)
MaxHistory == 300           \* this.maxHistory
MaxFrames == 2              \* frames explored

DefaultGains == [kp |-> 50, ki |-> 0, kd |-> 10]        \* new PID(0.5, 0.0, 0.1)

\* slider settings tried (hundredths)
GainInputs == { DefaultGains, [kp |-> 200, ki |-> 100, kd |-> 0] }

\* pointer positions tried, relative to the knob centre (px)
KnobPts == { [x |-> 0, y |-> -40], [x |-> -40, y |-> 0], [x |-> 100, y |-> 0] }

\* gaps between consecutive frame timestamps tried (ms)
FrameGaps == {0, 16, 250}

\* while (error > Math.PI) error -= 2 * Math.PI
RECURSIVE WrapDown(_)
WrapDown(e) == IF e > PiM THEN WrapDown(e - TwoPiM) ELSE e

\* while (error < -Math.PI) error += 2 * Math.PI
RECURSIVE WrapUp(_)
WrapUp(e) == IF e < -PiM THEN WrapUp(e + TwoPiM) ELSE e

\* the first loop alone
WrapDownOnly(e) == WrapDown(e)

\* the two loops of PIDSimulation.update, in the order of the code
Wrap(e) == WrapUp(WrapDown(e))

\* PID.update with the output computed before the integral accumulates
PIDUpdateStaleIntegral(g, prev, int, sp, pv, dt) ==
    LET error == sp - pv
        derivative == RDiv((error - prev) * 1000, dt)
    IN  [prevError |-> error, integral |-> int + RDiv(error * dt, 1000),
         output |-> RDiv(g.kp * error + g.ki * int + g.kd * derivative, 100)]

\* PID.update(setpoint, processVariable, dt) for dt > 0: the new fields and the output
PIDUpdate(g, prev, int, sp, pv, dt) ==
    LET error == sp - pv
        int1 == int + RDiv(error * dt, 1000)
        derivative == RDiv((error - prev) * 1000, dt)
        output == RDiv(g.kp * error + g.ki * int1 + g.kd * derivative, 100)
    IN  [prevError |-> error, integral |-> int1, output |-> output]

\* RotationalSystem.update(torque, dt)
SystemUpdate(a, v, torque, dt) ==
    LET netTorque == torque - RDiv(Damping * v, 100)
        acceleration == RDiv(netTorque * 100, Inertia)
        v1 == v + RDiv(acceleration * dt, 1000)
    IN  [velocity |-> v1, angle |-> a + RDiv(v1 * dt, 1000)]

\* update(dt) has left the loops that wrap system.angle (lines 185-186); raw is
\* the angle they started from in units of 10^13 rad, 0 for the angles of a
\* few radians that gains of the sliders' order give
WrapDone == [running |-> FALSE, raw |-> 0]

AllPIDFields == {"angle", "velocity", "integral", "prevError", "pidInput", "controlOutput"}

\* PIDSimulation.update(dt).  With dt = 0 the derivative is x / 0, the output is
\* infinite or NaN and velocity += acceleration * 0 leaves NaN in velocity and
\* angle; once the angle is NaN every later error is NaN.
Update(dt) ==
    /\ lastDt' = dt
    /\ historyLen' = IF historyLen < MaxHistory THEN historyLen + 1 ELSE MaxHistory
    /\ pidCalls' = pidCalls + 1
    /\ wrapLoop' = WrapDone
    /\ IF "angle" \in pidNaN
       THEN /\ pidNaN' = AllPIDFields
            /\ UNCHANGED <<prevError, integral, angle, velocity, pidInput, controlOutput>>
       ELSE IF dt = 0
       THEN /\ pidNaN' = pidNaN \cup {"angle", "velocity", "controlOutput"}
            /\ prevError' = Wrap(setpoint - angle)
            /\ pidInput' = Wrap(setpoint - angle)
            /\ UNCHANGED <<integral, angle, velocity, controlOutput>>
       ELSE LET error == Wrap(setpoint - angle)
                c == PIDUpdate(gains, prevError, integral, error, 0, dt)
                q == SystemUpdate(angle, velocity, c.output * TorqueScale, dt)
            IN  /\ prevError' = c.prevError
                /\ integral' = c.integral
                /\ pidInput' = error
                /\ controlOutput' = c.output
                /\ velocity' = q.velocity
                /\ angle' = Wrap(q.angle)
                /\ pidNaN' = pidNaN \ {"controlOutput"}

\* new PIDSimulation(canvas), pidSim.animate(0) and updateParams() with the
\* sliders' values: the first update runs on a system at rest at its setpoint
InitPID ==
    /\ gains \in GainInputs
    /\ prevError = 0
    /\ integral = 0
    /\ angle = 0
    /\ velocity = 0
    /\ setpoint = 0
    /\ isDragging = FALSE
    /\ lastTime = 0
    /\ lastDt = FirstDt
    /\ historyLen = 1
    /\ pidInput = 0
    /\ controlOutput = 0
    /\ pidCalls = 0
    /\ pidNaN = {}
    /\ wrapLoop = WrapDone

\* updateSetpoint(x, y), x and y relative to the knob centre
UpdateSetpoint(pos) == RDiv(Atan2U(pos.y, pos.x), 1000)

\* handleInputStart(e)
HandleInputStart(pos) ==
    /\ IF Hypot(pos.x, pos.y) < KnobRadius
       THEN isDragging' = TRUE /\ setpoint' = UpdateSetpoint(pos)
       ELSE UNCHANGED <<isDragging, setpoint>>
    /\ op' = "handleInputStart"
    /\ UNCHANGED <<gains, prevError, integral, angle, velocity, lastTime, lastDt,
                   historyLen, pidInput, controlOutput, pidCalls, pidNaN, wrapLoop>>
    /\ OnlyPID

\* handleInputMove(e)
HandleInputMove(pos) ==
    /\ IF isDragging THEN setpoint' = UpdateSetpoint(pos) ELSE UNCHANGED setpoint
    /\ op' = "handleInputMove"
    /\ UNCHANGED <<gains, prevError, integral, angle, velocity, isDragging, lastTime,
                   lastDt, historyLen, pidInput, controlOutput, pidCalls, pidNaN, wrapLoop>>
    /\ OnlyPID

\* handleInputEnd(): mouseup, mouseleave, touchend
HandleInputEnd ==
    /\ isDragging' = FALSE
    /\ op' = "handleInputEnd"
    /\ UNCHANGED <<gains, prevError, integral, angle, velocity, setpoint, lastTime,
                   lastDt, historyLen, pidInput, controlOutput, pidCalls, pidNaN, wrapLoop>>
    /\ OnlyPID

\* animate(currentTime) with currentTime = lastTime + gap
PIDAnimate(gap) ==
    /\ historyLen < MaxFrames + 1
    /\ LET currentTime == lastTime + gap
           dt == IF lastTime # 0
                 THEN (IF gap < MaxDt THEN gap ELSE MaxDt)
                 ELSE FirstDt
       IN  /\ lastTime' = currentTime
           /\ Update(dt)
    /\ op' = "animate"
    /\ UNCHANGED <<gains, setpoint, isDragging>>
    /\ OnlyPID

\* updateGains(p, i, d) without its call of pid.reset()
UpdateGainsNoReset(g) ==
    /\ gains' = g
    /\ pidCalls' = 0
    /\ op' = "updateGains"
    /\ UNCHANGED <<prevError, integral, pidNaN, angle, velocity, setpoint, isDragging,
                   lastTime, lastDt, historyLen, pidInput, controlOutput, wrapLoop>>
    /\ OnlyPID

\* updateGains(p, i, d), which ends in pid.reset()
UpdateGains(g) ==
    /\ gains' = g
    /\ prevError' = 0
    /\ integral' = 0
    /\ pidNaN' = pidNaN \ {"prevError", "integral"}
    /\ pidCalls' = 0
    /\ op' = "updateGains"
    /\ UNCHANGED <<angle, velocity, setpoint, isDragging, lastTime, lastDt, historyLen,
                   pidInput, controlOutput, wrapLoop>>
    /\ OnlyPID

NextPID ==
    \/ \E pos \in KnobPts : HandleInputStart(pos)
    \/ \E pos \in KnobPts : HandleInputMove(pos)
    \/ HandleInputEnd
    \/ \E gap \in FrameGaps : PIDAnimate(gap)
    \/ \E g \in GainInputs : UpdateGains(g)

\* PIDSimulation.update on its own: every setpoint and plant angle of a grid
\* over [-pi, pi], the boundary included
AngleGrid == { -PiM, 1 - PiM, -(PiM \div 2), -1, 0, 1, PiM \div 2, PiM - 1, PiM }

InitPIDUpdate ==
    /\ gains = DefaultGains
    /\ prevError = 0
    /\ integral = 0
    /\ angle \in AngleGrid
    /\ velocity = 0
    /\ setpoint \in AngleGrid
    /\ isDragging = FALSE
    /\ lastTime = 0
    /\ lastDt = FirstDt
    /\ historyLen = 0
    /\ pidInput = 0
    /\ controlOutput = 0
    /\ pidCalls = 0
    /\ pidNaN = {}
    /\ wrapLoop = WrapDone

PIDUpdateStep ==
    /\ historyLen < MaxCalls
    /\ Update(FirstDt)
    /\ op' = "update"
    /\ UNCHANGED <<gains, setpoint, isDragging, lastTime>>
    /\ OnlyPID

\* PIDSimulation.update with gains of the order of 10^16 and more.  The gains
\* are in units of 10^16 (hundredths of them, as everywhere), so that the
\* output, the torque, the velocity and the angle before the wrap loops, which
\* are proportional to the gains for a plant at rest, are in units of 10^13
\* rad where the model has them in milli-radians; error, setpoint and dt are
\* in milli-radians and ms as everywhere.
LargeGains == { [kp |-> 100 * k, ki |-> 0, kd |-> 0] : k \in {1, 2, 4, 5, 10} }

LargeSetpoints == {-1571, -785, 785, 1571}

LargeDts == {16, 50, 90, 100}

\* doubles above 2^56 = 7205.759... * 10^13 are 16 apart, so that
\* angle -= 2 * Math.PI leaves such an angle as it is (and angle += 2 * Math.PI
\* one below -2^56); up to 2^56 the subtraction lowers the angle
AbsorbAbove == 7205

\* the wrapped angles (milli-radians) tried for the angle the loops end on when
\* they start from 10^13 rad and more, where the doubles are too far apart for
\* the model to follow the remainder
LongWrapEnds == {-PiM, 0, PiM}

\* updateGains(kp, 0, 0) with such a gain and a drag of the knob on the fresh
\* page, the plant at rest
InitLargeGain ==
    /\ gains \in LargeGains
    /\ prevError = 0
    /\ integral = 0
    /\ angle = 0
    /\ velocity = 0
    /\ setpoint \in LargeSetpoints
    /\ isDragging = FALSE
    /\ lastTime = 0
    /\ lastDt \in LargeDts
    /\ historyLen = 1
    /\ pidInput = 0
    /\ controlOutput = 0
    /\ pidCalls = 0
    /\ pidNaN = {}
    /\ wrapLoop = WrapDone

\* update(dt) on that plant: the body of Update(dt) for dt > 0 with the loops
\* of lines 185-186 on an angle in units of 10^13 rad
LargeGainUpdate ==
    /\ pidCalls = 0
    /\ pidCalls' = 1
    /\ LET error == Wrap(setpoint - angle)
           c == PIDUpdate(gains, prevError, integral, error, 0, lastDt)
           q == SystemUpdate(0, velocity, c.output * TorqueScale, lastDt)
       IN  /\ prevError' = c.prevError
           /\ integral' = c.integral
           /\ pidInput' = error
           /\ controlOutput' = c.output
           /\ velocity' = q.velocity
           /\ IF Abs(q.angle) > AbsorbAbove
              THEN /\ wrapLoop' = [running |-> TRUE, raw |-> q.angle]
                   /\ UNCHANGED <<angle, historyLen>>
              ELSE /\ wrapLoop' = [running |-> FALSE, raw |-> q.angle]
                   /\ angle' \in (IF q.angle = 0 THEN {0} ELSE LongWrapEnds)
                   /\ historyLen' = historyLen + 1
    /\ op' = "update"
    /\ UNCHANGED <<gains, setpoint, isDragging, lastTime, lastDt, pidNaN>>
    /\ OnlyPID

\* The PID object on its own: a controller with any of these gains (hundredths),
\* called with the same error (milli-radians) and the same dt (ms) every time
UnitGains == { [kp |-> 0, ki |-> 50, kd |-> 0], [kp |-> 0, ki |-> 100, kd |-> 0],
               [kp |-> 0, ki |-> 200, kd |-> 0], [kp |-> 50, ki |-> 0, kd |-> 10],
               [kp |-> 200, ki |-> 100, kd |-> 0] }

UnitErrors == {-1000, 500, 1500, 2000}

UnitDts == {16, 40, 100}

\* new PID(kp, ki, kd)
InitPIDUnit ==
    /\ gains \in UnitGains
    /\ prevError = 0
    /\ integral = 0
    /\ angle = 0
    /\ velocity = 0
    /\ setpoint = 0
    /\ isDragging = FALSE
    /\ lastTime = 0
    /\ lastDt \in UnitDts
    /\ historyLen = 0
    /\ pidInput \in UnitErrors
    /\ controlOutput = 0
    /\ pidCalls = 0
    /\ pidNaN = {}
    /\ wrapLoop = WrapDone

\* pid.update(e, 0, dt)
PIDUnitUpdate ==
    /\ pidCalls < MaxCalls
    /\ LET c == PIDUpdate(gains, prevError, integral, pidInput, 0, lastDt)
       IN  /\ prevError' = c.prevError
           /\ integral' = c.integral
           /\ controlOutput' = c.output
    /\ pidCalls' = pidCalls + 1
    /\ op' = "PID.update"
    /\ UNCHANGED <<gains, angle, velocity, setpoint, isDragging, lastTime, lastDt,
                   historyLen, pidInput, pidNaN, wrapLoop>>
    /\ OnlyPID

\* pid.reset()
PIDUnitReset ==
    /\ prevError' = 0
    /\ integral' = 0
    /\ pidCalls' = 0
    /\ op' = "PID.reset"
    /\ UNCHANGED <<gains, angle, velocity, setpoint, isDragging, lastTime, lastDt,
                   historyLen, pidInput, controlOutput, pidNaN, wrapLoop>>
    /\ OnlyPID

NextPIDUnit ==
    \/ PIDUnitUpdate
    \/ PIDUnitReset
    \/ \E g \in GainInputs : UpdateGains(g)

-----------------------------------------------------------------------------
(* Double pendulum: the two DoublePendulum classes (src/pendulum.js).  The  *)
(* parameters and showTrace keep their constructor values.                  *)

PendM1 == 10            \* this.m1
PendM2 == 10            \* this.m2
PendL1 == 150           \* this.l1 (px)
PendL2 == 150           \* this.l2 (px)
PendG == 981            \* this.g = 9.81 (hundredths)
BobRadius == 20         \* if (dist1 < 20)
TimeScale == 10         \* const timeScale = 10
MaxStepSize == 5        \* const maxStepSize = 0.005 (ms)
SpeedFactor == 20       \* dt * 20
EulerDamping == 999     \* this.a1_v *= 0.999 (thousandths)
PendMaxDt == 16         \* Math.min(..., 0.016), and the dt of the first frames
MaxTraceLength == 500   \* this.maxTraceLength
MaxPendFrames == 2      \* frames explored

\* pointer positions tried, relative to this.origin (px)
PendPts == { [x |-> 0, y |-> 150], [x |-> 0, y |-> 300], [x |-> 150, y |-> 0] }

\* gaps between consecutive frame timestamps tried (ms)
PendGaps == {0, 5, 16}

\* getBobPositions(), relative to this.origin
GetBobPositions(s) ==
    LET x1 == RDiv(PendL1 * SinU(s.a1), 1000)
        y1 == RDiv(PendL1 * CosU(s.a1), 1000)
    IN  [x1 |-> x1, y1 |-> y1,
         x2 |-> x1 + RDiv(PendL2 * SinU(s.a2), 1000),
         y2 |-> y1 + RDiv(PendL2 * CosU(s.a2), 1000)]

\* v * v for a velocity in micro-radians per second, in thousandths of rad^2/s^2
VSq(v) == LET vm == RDiv(v, 1000) IN RDiv(vm * vm, 1000)

\* derivatives(state) of the RK4 class: [a1_v, a1_a, a2_v, a2_a]
Derivatives(s) ==
    LET delta == s.a2 - s.a1
        sd == SinU(delta)
        cd == CosU(delta)
        sc == RDiv(sd * cd, 1000)
        den1 == RDiv((PendM1 + PendM2) * PendL1 * 1000
                       - PendM2 * PendL1 * RDiv(cd * cd, 1000), 1000)
        den2 == RDiv(PendL2 * den1, PendL1)
        num1 == PendM2 * PendL1 * RDiv(VSq(s.a1_v) * sc, 1000)
                + RDiv(PendM2 * PendG * RDiv(SinU(s.a2) * cd, 1000), 100)
                + PendM2 * PendL2 * RDiv(VSq(s.a2_v) * sd, 1000)
                - RDiv((PendM1 + PendM2) * PendG * SinU(s.a1), 100)
        num2 == - PendM2 * PendL2 * RDiv(VSq(s.a2_v) * sc, 1000)
                + RDiv((PendM1 + PendM2) * PendG * RDiv(SinU(s.a1) * cd, 1000), 100)
                - (PendM1 + PendM2) * PendL1 * RDiv(VSq(s.a1_v) * sd, 1000)
                - RDiv((PendM1 + PendM2) * PendG * SinU(s.a2), 100)
    IN  [a1 |-> s.a1_v, a1_v |-> MulDiv(num1, 1000, den1),
         a2 |-> s.a2_v, a2_v |-> MulDiv(num2, 1000, den2)]

\* s + k * h, h in microseconds
Advance(s, k, h) ==
    [a1 |-> s.a1 + RDiv(MulDiv(k.a1, h, 1000), 1000),
     a1_v |-> s.a1_v + RDiv(MulDiv(k.a1_v, h, 1000), 1000),
     a2 |-> s.a2 + RDiv(MulDiv(k.a2, h, 1000), 1000),
     a2_v |-> s.a2_v + RDiv(MulDiv(k.a2_v, h, 1000), 1000)]

\* the update at the end of rk4Step: this.a1 += (k1[0] + 2 * k2[0] + ...) * dt / 6
RK4Final(s, k1, k2, k3, k4, dt) ==
    [a1 |-> s.a1 + RDiv(MulDiv(k1.a1 + 2 * k2.a1 + 2 * k3.a1 + k4.a1, dt, 1000), 6000),
     a1_v |-> s.a1_v
              + RDiv(MulDiv(k1.a1_v + 2 * k2.a1_v + 2 * k3.a1_v + k4.a1_v, dt, 1000), 6000),
     a2 |-> s.a2 + RDiv(MulDiv(k1.a2 + 2 * k2.a2 + 2 * k3.a2 + k4.a2, dt, 1000), 6000),
     a2_v |-> s.a2_v
              + RDiv(MulDiv(k1.a2_v + 2 * k2.a2_v + 2 * k3.a2_v + k4.a2_v, dt, 1000), 6000)]

\* rk4Step(dt) from k4 on, from k3 on and from k2 on; each slope is bound to
\* its value once, in the order of the code (dt in microseconds)
RK4FromK4(s, k1, k2, k3, dt) ==
    CHOOSE r \in { RK4Final(s, k1, k2, k3, k4, dt) :
                     k4 \in {Derivatives(Advance(s, k3, dt))} } : TRUE

RK4FromK3(s, k1, k2, dt) ==
    CHOOSE r \in { RK4FromK4(s, k1, k2, k3, dt) :
                     k3 \in {Derivatives(Advance(s, k2, dt \div 2))} } : TRUE

RK4FromK2(s, k1, dt) ==
    CHOOSE r \in { RK4FromK3(s, k1, k2, dt) :
                     k2 \in {Derivatives(Advance(s, k1, dt \div 2))} } : TRUE

\* rk4Step(dt)
RK4Step(s, dt) ==
    CHOOSE r \in { RK4FromK2(s, k1, dt) : k1 \in {Derivatives(s)} } : TRUE

\* for (let i = 0; i < steps; i++) this.rk4Step(subDt)
RECURSIVE RK4Steps(_, _, _)
RK4Steps(s, subDt, n) ==
    IF n = 0 THEN s
    ELSE CHOOSE r \in { RK4Steps(q, subDt, n - 1) : q \in {RK4Step(s, subDt)} } : TRUE

\* the scaled deltas dt * 10 (microseconds), dt a whole number of microseconds
\* up to 0.016 s, for which the double-precision quotient targetDt / maxStepSize
\* lies just above the exact one, a whole number: (0.0035 * 10) / 0.005 =
\* 7.000000000000001, (0.007 * 10) / 0.005 = 14.000000000000002, and the same
\* for 0.014 and 0.0145
QuotientRoundedUp == {35000, 70000, 140000, 145000}

\* the whole part of the quotient
StepCountFloor(targetDt) == targetDt \div (MaxStepSize * 1000)

\* Math.ceil(targetDt / maxStepSize), targetDt in microseconds
StepCount(targetDt) ==
    (targetDt + MaxStepSize * 1000 - 1) \div (MaxStepSize * 1000)
        + (IF targetDt \in QuotientRoundedUp THEN 1 ELSE 0)

\* subDt = targetDt / steps, in microseconds
SubDt(targetDt, steps) == IF steps = 0 THEN 0 ELSE targetDt \div steps

\* whether update(dt) of the RK4 class returns at once
RK4Returns(paused, drag) == paused \/ drag # "none"

\* update(dt) of the RK4 class past its guard, dt in microseconds
RK4Update(s, dt) ==
    LET targetDt == dt * TimeScale
        steps == StepCount(targetDt)
    IN  IF steps = 0 THEN s ELSE RK4Steps(s, SubDt(targetDt, steps), steps)

\* whether update(dt) of the Euler class returns at once
EulerReturns(paused, drag) == paused /\ drag = "none"

\* update(dt) of the Euler class past its guard, dt in ms
EulerUpdate(s, dt) ==
    LET d12 == s.a1 - s.a2
        mm == 2 * PendM1 + PendM2
        num1 == - RDiv(PendG * mm * SinU(s.a1), 100)
        num2 == - RDiv(PendM2 * PendG * SinU(s.a1 - 2 * s.a2), 100)
        num3 == - 2 * SinU(d12) * PendM2
        num4 == VSq(s.a2_v) * PendL2 + PendL1 * RDiv(VSq(s.a1_v) * CosU(d12), 1000)
        c2 == CosU(2 * s.a1 - 2 * s.a2)
        den == RDiv(PendL1 * (mm * 1000 - PendM2 * c2), 1000)
        a1_a == MulDiv(num1 + num2 + MulDiv(num4, num3, 1000), 1000, den)
        num1_2 == 2 * SinU(d12)
        num2_2 == VSq(s.a1_v) * PendL1 * (PendM1 + PendM2)
        num3_2 == RDiv(PendG * (PendM1 + PendM2) * CosU(s.a1), 100)
        num4_2 == PendL2 * PendM2 * RDiv(VSq(s.a2_v) * CosU(d12), 1000)
        den_2 == RDiv(PendL2 * (mm * 1000 - PendM2 * c2), 1000)
        a2_a == MulDiv(MulDiv(num2_2 + num3_2 + num4_2, num1_2, 1000), 1000, den_2)
        v1 == s.a1_v + MulDiv(a1_a, dt * SpeedFactor, 1000)
        v2 == s.a2_v + MulDiv(a2_a, dt * SpeedFactor, 1000)
    IN  [a1 |-> s.a1 + MulDiv(v1, dt * SpeedFactor, 1000),
         a1_v |-> MulDiv(v1, EulerDamping, 1000),
         a2 |-> s.a2 + MulDiv(v2, dt * SpeedFactor, 1000),
         a2_v |-> MulDiv(v2, EulerDamping, 1000)]

\* the four integrated fields
PendState == [a1 |-> a1, a1_v |-> a1_v, a2 |-> a2, a2_v |-> a2_v]

SetPendState(s) == a1' = s.a1 /\ a1_v' = s.a1_v /\ a2' = s.a2 /\ a2_v' = s.a2_v

\* new DoublePendulum(canvas) and the first pendulum.animate(0): paused, at rest,
\* one point drawn into the trace
InitPendulum ==
    /\ variant \in {"RK4", "Euler"}
    /\ a1 = 0 /\ a2 = 0 /\ a1_v = 0 /\ a2_v = 0
    /\ isPaused = TRUE
    /\ dragging = "none"
    /\ pendLastTime = 0
    /\ traceLen = 1
    /\ pendSteps = 0
    /\ pendDt = PendMaxDt * 1000
    /\ pendSubDt = 0
    /\ pendFrames = 0

\* handleMouseDown(e), the same in both classes
HandleMouseDown(pos) ==
    /\ LET b == GetBobPositions(PendState)
       IN  IF Hypot(pos.x - b.x1, pos.y - b.y1) < BobRadius
           THEN dragging' = "bob1" /\ isPaused' = TRUE
           ELSE IF Hypot(pos.x - b.x2, pos.y - b.y2) < BobRadius
           THEN dragging' = "bob2" /\ isPaused' = TRUE
           ELSE UNCHANGED <<dragging, isPaused>>
    /\ op' = "handleMouseDown"
    /\ UNCHANGED <<variant, a1, a2, a1_v, a2_v, pendLastTime, traceLen, pendSteps, pendDt, pendSubDt, pendFrames>>
    /\ OnlyPendulum

\* handleMouseMove(e): the RK4 class zeroes the velocity of the held bob, the
\* Euler class both velocities, and the Euler class ends in this.draw()
HandleMouseMove(pos) ==
    /\ IF dragging = "none"
       THEN UNCHANGED <<a1, a2, a1_v, a2_v, traceLen>>
       ELSE /\ IF dragging = "bob1"
               THEN /\ a1' = Atan2U(pos.x, pos.y)
                    /\ a1_v' = 0
                    /\ a2_v' = IF variant = "Euler" THEN 0 ELSE a2_v
                    /\ UNCHANGED a2
               ELSE /\ LET b == GetBobPositions(PendState)
                       IN  a2' = Atan2U(pos.x - b.x1, pos.y - b.y1)
                    /\ a2_v' = 0
                    /\ a1_v' = IF variant = "Euler" THEN 0 ELSE a1_v
                    /\ UNCHANGED a1
            /\ traceLen' = IF variant = "Euler" THEN 1 ELSE 0
    /\ op' = "handleMouseMove"
    /\ UNCHANGED <<variant, isPaused, dragging, pendLastTime, pendSteps, pendDt, pendSubDt, pendFrames>>
    /\ OnlyPendulum

\* handleMouseUp(): mouseup, mouseleave
HandleMouseUp ==
    /\ IF dragging # "none"
       THEN dragging' = "none" /\ isPaused' = FALSE
       ELSE UNCHANGED <<dragging, isPaused>>
    /\ op' = "handleMouseUp"
    /\ UNCHANGED <<variant, a1, a2, a1_v, a2_v, pendLastTime, traceLen, pendSteps, pendDt, pendSubDt, pendFrames>>
    /\ OnlyPendulum

\* update(dt) of the loaded class, dt in microseconds (the Euler class is only
\* run on whole milliseconds)
PendUpdate(dt) ==
    /\ pendDt' = dt
    /\ IF variant = "RK4"
       THEN IF RK4Returns(isPaused, dragging)
            THEN pendSteps' = 0 /\ pendSubDt' = 0 /\ UNCHANGED <<a1, a2, a1_v, a2_v>>
            ELSE /\ pendSteps' = StepCount(dt * TimeScale)
                 /\ pendSubDt' = SubDt(dt * TimeScale, StepCount(dt * TimeScale))
                 /\ SetPendState(RK4Update(PendState, dt))
       ELSE IF EulerReturns(isPaused, dragging)
            THEN pendSteps' = 0 /\ pendSubDt' = 0 /\ UNCHANGED <<a1, a2, a1_v, a2_v>>
            ELSE /\ pendSteps' = 1
                 /\ pendSubDt' = dt
                 /\ SetPendState(EulerUpdate(PendState, dt \div 1000))

\* animate(currentTime) with currentTime = lastTime + gap: update(dt), then
\* draw(), which pushes a point to the trace
PendAnimate(gap) ==
    /\ pendFrames < MaxPendFrames
    /\ pendFrames' = pendFrames + 1
    /\ pendLastTime' = pendLastTime + gap
    /\ PendUpdate(1000 * (IF pendLastTime # 0
                          THEN (IF gap < PendMaxDt THEN gap ELSE PendMaxDt)
                          ELSE PendMaxDt))
    /\ traceLen' = IF traceLen < MaxTraceLength THEN traceLen + 1 ELSE MaxTraceLength
    /\ op' = "pendulum.animate"
    /\ UNCHANGED <<variant, isPaused, dragging>>
    /\ OnlyPendulum

\* reset() without the two velocity assignments
PendResetKeepsVelocity ==
    /\ a1' = 0 /\ a2' = 0
    /\ traceLen' = 0
    /\ isPaused' = TRUE
    /\ op' = "reset"
    /\ UNCHANGED <<variant, a1_v, a2_v, dragging, pendLastTime, pendSteps, pendDt, pendSubDt, pendFrames>>
    /\ OnlyPendulum

\* reset()
PendReset ==
    /\ a1' = 0 /\ a2' = 0 /\ a1_v' = 0 /\ a2_v' = 0
    /\ traceLen' = 0
    /\ isPaused' = TRUE
    /\ op' = "reset"
    /\ UNCHANGED <<variant, dragging, pendLastTime, pendSteps, pendDt, pendSubDt, pendFrames>>
    /\ OnlyPendulum

\* click on pauseBtn
PauseClick ==
    /\ isPaused' = ~isPaused
    /\ op' = "pauseBtn"
    /\ UNCHANGED <<variant, a1, a2, a1_v, a2_v, dragging, pendLastTime, traceLen,
                   pendSteps, pendDt, pendSubDt, pendFrames>>
    /\ OnlyPendulum

\* update(dt) of the RK4 class on its own: a running pendulum released from
\* one of these angles, updated with any of these dt (microseconds) in
\* (0, 0.016 s]
UpdateAngles == { <<0, 0>>, <<HalfPiU, 0>>, <<HalfPiU, HalfPiU>> }

UpdateDts == {500, 1000, 3500, 6940, 7000, 8333, 16000}

InitRK4Update ==
    /\ variant = "RK4"
    /\ \E a \in UpdateAngles : a1 = a[1] /\ a2 = a[2]
    /\ a1_v = 0 /\ a2_v = 0
    /\ isPaused = FALSE
    /\ dragging = "none"
    /\ pendLastTime = 0
    /\ traceLen = 1
    /\ pendSteps = 0
    /\ pendDt = PendMaxDt * 1000
    /\ pendSubDt = 0
    /\ pendFrames = 0

RK4UpdateCall(dt) ==
    /\ pendFrames < MaxCalls
    /\ pendFrames' = pendFrames + 1
    /\ PendUpdate(dt)
    /\ op' = "pendulum.update"
    /\ UNCHANGED <<variant, isPaused, dragging, pendLastTime, traceLen>>
    /\ OnlyPendulum

NextRK4Update == \E dt \in UpdateDts : RK4UpdateCall(dt)

NextPendulum ==
    \/ \E pos \in PendPts : HandleMouseDown(pos)
    \/ \E pos \in PendPts : HandleMouseMove(pos)
    \/ HandleMouseUp
    \/ \E gap \in PendGaps : PendAnimate(gap)
    \/ PendReset
    \/ PauseClick

-----------------------------------------------------------------------------
(* Lorenz attractor: LorenzSimulation (src/pendulum.js)                     *)

LorenzMaxPoints == 2000     \* this.maxPoints
LorenzDt == 5               \* this.step(0.005) (ms)
StepsPerFrame == 5          \* for (let i = 0; i < 5; i++)
AutoRotate == 3             \* this.angleY += 0.003 (milli-radians)
DragGain == 10              \* dx * 0.01 (milli-radians per px)
MaxLorenzFrames == 2        \* frames explored
MaxLorenzMoves == 2         \* mousemove events explored
ExtraSteps == 2             \* steps explored beyond a full history

LorenzSeed == [x |-> 100, y |-> 0, z |-> 0]                    \* (0.1, 0, 0)

LorenzDefaults == [sigma |-> 10000, rho |-> 28000, beta |-> 2667]   \* 10, 28, 8 / 3

\* slider settings tried
LorenzParamInputs == { LorenzDefaults, [sigma |-> 5000, rho |-> 15000, beta |-> 1000],
                       [sigma |-> 10000, rho |-> 20000, beta |-> 2667] }

\* pointer positions tried (px)
LorenzPts == { [x |-> 100, y |-> 100], [x |-> 130, y |-> 80] }

\* the arithmetic of step(dt): the new (x, y, z)
LorenzStep(p, s, dt) ==
    LET dx == RDiv(MulDiv(p.sigma, s.y - s.x, 1000) * dt, 1000)
        dy == RDiv((MulDiv(s.x, p.rho - s.z, 1000) - s.y) * dt, 1000)
        dz == RDiv((MulDiv(s.x, s.y, 1000) - MulDiv(p.beta, s.z, 1000)) * dt, 1000)
    IN  [x |-> s.x + dx, y |-> s.y + dy, z |-> s.z + dz]

\* push with no shift
PushPointUnbounded(pts, pt) == Append(pts, pt)

\* this.points.push(...); if (this.points.length > this.maxPoints) this.points.shift()
PushPoint(pts, pt) ==
    LET q == Append(pts, pt)
    IN  IF Len(q) > LorenzMaxPoints THEN Tail(q) ELSE q

\* step(dt) on [pos, points]
StepOnce(p, st, dt) ==
    CHOOSE r \in { [pos |-> s1, points |-> PushPoint(st.points, s1)] :
                     s1 \in {LorenzStep(p, st.pos, dt)} } : TRUE

\* n calls of step(dt), one after the other (evaluated as two halves)
RECURSIVE StepTimes(_, _, _, _)
StepTimes(p, st, dt, n) ==
    IF n = 0 THEN st
    ELSE IF n = 1 THEN StepOnce(p, st, dt)
    ELSE CHOOSE r \in { StepTimes(p, h, dt, n - n \div 2) :
                          h \in {StepTimes(p, st, dt, n \div 2)} } : TRUE

\* new LorenzSimulation(canvas): the constructor's values, then updateParams()
\* with the sliders' values, which ends in reset()
InitLorenz ==
    /\ lorenzParams \in LorenzParamInputs
    /\ lorenz = LorenzSeed
    /\ points = <<>>
    /\ camera = [angleX |-> 0, angleY |-> 0, lastMouse |-> [x |-> 0, y |-> 0]]
    /\ lorenzDragging = FALSE
    /\ lorenzSteps = 0
    /\ lorenzMoves = 0

\* mousedown listener
LorenzMouseDown(pos) ==
    /\ lorenzDragging' = TRUE
    /\ camera' = [camera EXCEPT !.lastMouse = pos]
    /\ op' = "lorenz.mousedown"
    /\ UNCHANGED <<lorenzParams, lorenz, points, lorenzSteps, lorenzMoves>>
    /\ OnlyLorenz

\* mousemove listener
LorenzMouseMove(pos) ==
    /\ lorenzMoves < MaxLorenzMoves
    /\ lorenzMoves' = lorenzMoves + 1
    /\ IF lorenzDragging
       THEN camera' = [angleX |-> camera.angleX + (pos.y - camera.lastMouse.y) * DragGain,
                       angleY |-> camera.angleY + (pos.x - camera.lastMouse.x) * DragGain,
                       lastMouse |-> pos]
       ELSE UNCHANGED camera
    /\ op' = "lorenz.mousemove"
    /\ UNCHANGED <<lorenzParams, lorenz, points, lorenzDragging, lorenzSteps>>
    /\ OnlyLorenz

\* mouseup listener
LorenzMouseUp ==
    /\ lorenzDragging' = FALSE
    /\ op' = "lorenz.mouseup"
    /\ UNCHANGED <<lorenzParams, lorenz, points, camera, lorenzSteps, lorenzMoves>>
    /\ OnlyLorenz

\* updateParams without its call of reset()
UpdateParamsNoReset(p) ==
    /\ lorenzParams' = p
    /\ op' = "updateParams"
    /\ UNCHANGED <<lorenz, points, camera, lorenzDragging, lorenzSteps, lorenzMoves>>
    /\ OnlyLorenz

\* updateParams (input on the sigma, rho or beta slider), which ends in reset()
UpdateParams(p) ==
    /\ lorenzParams' = p
    /\ lorenz' = LorenzSeed
    /\ points' = <<>>
    /\ op' = "updateParams"
    /\ UNCHANGED <<camera, lorenzDragging, lorenzSteps, lorenzMoves>>
    /\ OnlyLorenz

\* animate(): five steps, draw(), the slow rotation
LorenzAnimate(hidden) ==
    /\ lorenzSteps < StepsPerFrame * MaxLorenzFrames
    /\ IF hidden
       THEN /\ op' = "lorenz.animate-hidden"
            /\ UNCHANGED <<lorenz, points, camera, lorenzSteps>>
       ELSE /\ LET st == StepTimes(lorenzParams, [pos |-> lorenz, points |-> points],
                                   LorenzDt, StepsPerFrame)
               IN  lorenz' = st.pos /\ points' = st.points
            /\ camera' = IF lorenzDragging THEN camera
                         ELSE [camera EXCEPT !.angleY = @ + AutoRotate]
            /\ lorenzSteps' = lorenzSteps + StepsPerFrame
            /\ op' = "lorenz.animate"
    /\ UNCHANGED <<lorenzParams, lorenzDragging, lorenzMoves>>
    /\ OnlyLorenz

NextLorenz ==
    \/ \E pos \in LorenzPts : LorenzMouseDown(pos)
    \/ \E pos \in LorenzPts : LorenzMouseMove(pos)
    \/ LorenzMouseUp
    \/ \E p \in LorenzParamInputs : UpdateParams(p)
    \/ \E hidden \in BOOLEAN : LorenzAnimate(hidden)

\* step(dt) on its own: a simulation that has run this many steps since its
\* construction, with the history those steps left
StepsBefore == {0, LorenzMaxPoints - ExtraSteps}

InitLorenzStep ==
    /\ lorenzParams \in LorenzParamInputs
    /\ lorenzSteps \in StepsBefore
    /\ LET st == StepTimes(lorenzParams, [pos |-> LorenzSeed, points |-> <<>>],
                           LorenzDt, lorenzSteps)
       IN  lorenz = st.pos /\ points = st.points
    /\ camera = [angleX |-> 0, angleY |-> 0, lastMouse |-> [x |-> 0, y |-> 0]]
    /\ lorenzDragging = FALSE
    /\ lorenzMoves = 0

\* step(dt), called until the history has been full for a while
LorenzStepCall ==
    /\ lorenzSteps < LorenzMaxPoints + ExtraSteps
    /\ LET st == StepOnce(lorenzParams, [pos |-> lorenz, points |-> points], LorenzDt)
       IN  lorenz' = st.pos /\ points' = st.points
    /\ lorenzSteps' = lorenzSteps + 1
    /\ op' = "step"
    /\ UNCHANGED <<lorenzParams, camera, lorenzDragging, lorenzMoves>>
    /\ OnlyLorenz

-----------------------------------------------------------------------------
(* Game of life: GameOfLife (src/gameoflife.js; src/unnamed/part_000 has   *)
(* the same countNeighbors and update)                                     *)

GolCols == 4            \* this.cols: grid size of the model
GolRows == 4            \* this.rows
MaxAlive == 4           \* most live cells in the grids update() is first run on
MaxGenerations == 2     \* update() calls explored

GolCells == (0..(GolCols - 1)) \X (0..(GolRows - 1))

\* createGrid(): every cell 0
CreateGrid == [i \in 0..(GolCols - 1) |-> [j \in 0..(GolRows - 1) |-> 0]]

\* the grid whose live cells are those of the set live
GridOf(live) ==
    [i \in 0..(GolCols - 1) |-> [j \in 0..(GolRows - 1) |-> IF <<i, j>> \in live THEN 1 ELSE 0]]

\* the sets of at most n cells
RECURSIVE LiveSets(_)
LiveSets(n) ==
    IF n = 0 THEN {{}}
    ELSE LiveSets(n - 1) \cup { S \cup {c} : S \in LiveSets(n - 1), c \in GolCells }

\* the (i, j) of the two loops of countNeighbors, in order
NeighborOffsets ==
    <<<<-1, -1>>, <<-1, 0>>, <<-1, 1>>, <<0, -1>>, <<0, 0>>, <<0, 1>>, <<1, -1>>, <<1, 0>>, <<1, 1>>>>

\* this.grid[(x + i + this.cols) % this.cols][(y + j + this.rows) % this.rows]
CellAt(g, x, y, d) == g[(x + d[1] + GolCols) % GolCols][(y + d[2] + GolRows) % GolRows]

RECURSIVE NeighborSum(_, _, _, _)
NeighborSum(g, x, y, k) ==
    IF k > Len(NeighborOffsets) THEN 0
    ELSE CellAt(g, x, y, NeighborOffsets[k]) + NeighborSum(g, x, y, k + 1)

\* countNeighbors(x, y): the sum over the 3 x 3 block, less the cell itself
CountNeighbors(g, x, y) == NeighborSum(g, x, y, 1) - g[x][y]

\* the branches of update() for one cell
NextCell(cell, neighbors) ==
    IF cell = 0 /\ neighbors = 3 THEN 1
    ELSE IF cell = 1 /\ (neighbors < 2 \/ neighbors > 3) THEN 0
    ELSE cell

\* the two loops writing each cell back into the grid they read
RECURSIVE InPlaceFrom(_, _)
InPlaceFrom(g, k) ==
    IF k >= GolCols * GolRows THEN g
    ELSE LET i == k \div GolRows
             j == k % GolRows
         IN  InPlaceFrom([g EXCEPT ![i][j] = NextCell(g[i][j], CountNeighbors(g, i, j))], k + 1)

NextGenerationInPlace(g) == InPlaceFrom(g, 0)

\* the two loops of update(): every cell of nextGrid written from this.grid
NextGeneration(g) ==
    [i \in 0..(GolCols - 1) |-> [j \in 0..(GolRows - 1) |->
        NextCell(g[i][j], CountNeighbors(g, i, j))]]

\* new GameOfLife(canvas); randomize() or the pointer have left at most
\* MaxAlive cells alive
InitGol ==
    /\ \E live \in LiveSets(MaxAlive) : grid = GridOf(live)
    /\ nextGrid = CreateGrid
    /\ golGen = 0

\* the engine left alone, its grid cleared
IdleGol == grid = CreateGrid /\ nextGrid = CreateGrid /\ golGen = 0

\* update(): the new generation is written to nextGrid and the buffers swapped
GolUpdate ==
    /\ golGen < MaxGenerations
    /\ grid' = NextGeneration(grid)
    /\ nextGrid' = grid
    /\ golGen' = golGen + 1
    /\ op' = "gol.update"
    /\ OnlyGol

-----------------------------------------------------------------------------
(* Specifications: one per engine; the other engines stay as constructed   *)

\* the engines a specification does not run, as constructed
IdlePID == InitPID /\ gains = DefaultGains
IdlePendulum == InitPendulum /\ variant = "RK4"
IdleLorenz == InitLorenz /\ lorenzParams = LorenzDefaults

InitSB ==
    InitSoftBody /\ InitFourier /\ IdlePID /\ IdlePendulum /\ IdleLorenz /\ IdleGol /\ op = "init"
SpecSoftBody == InitSB /\ [][NextSoftBody]_vars

InitG ==
    InitGol /\ InitSoftBody /\ InitFourier /\ IdlePID /\ IdlePendulum /\ IdleLorenz /\ op = "init"
SpecGol == InitG /\ [][GolUpdate]_vars

InitLD ==
    InitLanding /\ InitFourier /\ IdlePID /\ IdlePendulum /\ IdleLorenz /\ IdleGol /\ op = "init"
SpecLanding == InitLD /\ [][NextLanding]_vars

SpecPointer == InitSB /\ [][NextPointer]_vars

SpecExplosion == InitSB /\ [][NextExplosion]_vars

InitP ==
    InitParticle /\ InitFourier /\ IdlePID /\ IdlePendulum /\ IdleLorenz /\ IdleGol /\ op = "init"
SpecParticle == InitP /\ [][ParticleStep]_vars

InitS ==
    InitSpring /\ InitFourier /\ IdlePID /\ IdlePendulum /\ IdleLorenz /\ IdleGol /\ op = "init"
SpecSpring == InitS /\ [][SpringStep]_vars

InitSP ==
    InitPass /\ InitFourier /\ IdlePID /\ IdlePendulum /\ IdleLorenz /\ IdleGol /\ op = "init"
SpecSpringPass == InitSP /\ [][SpringPassCall]_vars

\* the passes keep coming: each solver tick runs them
SpecRelax == InitS /\ [][SpringRelax]_vars /\ WF_vars(SpringRelax)

InitF ==
    InitFourier /\ InitSoftBody /\ IdlePID /\ IdlePendulum /\ IdleLorenz /\ IdleGol /\ op = "init"
SpecFourier == InitF /\ [][NextFourier]_vars

InitR ==
    InitRoundTrip /\ InitSoftBody /\ IdlePID /\ IdlePendulum /\ IdleLorenz /\ IdleGol /\ op = "init"
SpecRoundTrip == InitR /\ [][NextRoundTrip]_vars

InitC ==
    InitPID /\ InitSoftBody /\ InitFourier /\ IdlePendulum /\ IdleLorenz /\ IdleGol /\ op = "init"
SpecPID == InitC /\ [][NextPID]_vars

InitU ==
    InitPIDUpdate /\ InitSoftBody /\ InitFourier /\ IdlePendulum /\ IdleLorenz /\ IdleGol /\ op = "init"
SpecPIDUpdate == InitU /\ [][PIDUpdateStep]_vars

InitN ==
    InitPIDUnit /\ InitSoftBody /\ InitFourier /\ IdlePendulum /\ IdleLorenz /\ IdleGol /\ op = "init"
SpecPIDUnit == InitN /\ [][NextPIDUnit]_vars

InitLG ==
    InitLargeGain /\ InitSoftBody /\ InitFourier /\ IdlePendulum /\ IdleLorenz /\ IdleGol /\ op = "init"
SpecLargeGain == InitLG /\ [][LargeGainUpdate]_vars

InitL ==
    InitLorenz /\ InitSoftBody /\ InitFourier /\ IdlePID /\ IdlePendulum /\ IdleGol /\ op = "init"
SpecLorenz == InitL /\ [][NextLorenz]_vars

InitT ==
    InitLorenzStep /\ InitSoftBody /\ InitFourier /\ IdlePID /\ IdlePendulum /\ IdleGol /\ op = "init"
SpecLorenzStep == InitT /\ [][LorenzStepCall]_vars

InitK ==
    InitRK4Update /\ InitSoftBody /\ InitFourier /\ IdlePID /\ IdleLorenz /\ IdleGol /\ op = "init"
SpecRK4Update == InitK /\ [][NextRK4Update]_vars

InitD ==
    InitPendulum /\ InitSoftBody /\ InitFourier /\ IdlePID /\ IdleLorenz /\ IdleGol /\ op = "init"
SpecPendulum == InitD /\ [][NextPendulum]_vars

-----------------------------------------------------------------------------
(* Claims about the soft body                                              *)

\* the distance Spring.update measures between the endpoints of spring s
SpringDist(ps, s) == Hypot(ps[s.p2].x - ps[s.p1].x, ps[s.p2].y - ps[s.p1].y)

\* C2 (as claimed; refuted by the code): in Spring.update with exactly one
\* endpoint pinned the free endpoint moves by the whole correction
\* stiffness * (length - dist) / dist times the separation vector, and with no
\* endpoint pinned each endpoint moves by half of it.
C2_FreeEndpointGetsWhole ==
    [][sbTicks' = sbTicks + 1 =>
        LET s == springs[1]
            a == particles[1]
            b == particles[2]
            dx == b.x - a.x
            dy == b.y - a.y
            dist == Hypot(dx, dy)
            diff == RDiv((s.length - dist) * s.stiffness * 100, dist)
            wholeX == RDiv(dx * diff, 10000)
            wholeY == RDiv(dy * diff, 10000)
            halfX == RDiv(dx * diff, 20000)
            halfY == RDiv(dy * diff, 20000)
        IN  dist # 0 =>
              /\ (a.isPinned /\ ~b.isPinned) =>
                    (particles'[2].x = b.x + wholeX /\ particles'[2].y = b.y + wholeY)
              /\ (~a.isPinned /\ b.isPinned) =>
                    (particles'[1].x = a.x - wholeX /\ particles'[1].y = a.y - wholeY)
              /\ (~a.isPinned /\ ~b.isPinned) =>
                    /\ particles'[1].x = a.x - halfX /\ particles'[1].y = a.y - halfY
                    /\ particles'[2].x = b.x + halfX /\ particles'[2].y = b.y + halfY
    ]_vars

\* C2: a spring off its rest length with exactly one endpoint pinned has been updated
C2_Witness ==
    /\ op = "Spring.update"
    /\ particles[1].isPinned # particles[2].isPinned
    /\ SpringDist(particles, springs[1]) # springs[1].length

\* the distance error of the one spring of the harness
SpringError == Abs(SpringDist(particles, springs[1]) - springs[1].length)

OnePinned == particles[1].isPinned # particles[2].isPinned

C3_ReleasedAtRest ==
    [][(draggedParticle # 0 /\ draggedParticle' = 0) =>
        LET q == particles'[draggedParticle]
        IN  q.x = q.oldx /\ q.y = q.oldy /\ ~q.isPinned
    ]_vars

\* C9: a solver tick (SoftBodySimulation.update) leaves x, y, oldx and oldy of
\* every particle that has isPinned set unchanged.
C9_PinnedUntouchedByTick ==
    [][sbTicks' = sbTicks + 1 =>
        \A i \in 1..Len(particles) :
            particles[i].isPinned => particles'[i] = particles[i]
    ]_vars

\* C9: a tick has just run with a pinned particle whose springs are off their rest length
C9_Witness ==
    /\ op = "update"
    /\ \E i \in 1..Len(particles) :
          /\ particles[i].isPinned
          /\ \E k \in 1..Len(springs) :
                /\ i \in {springs[k].p1, springs[k].p2}
                /\ SpringDist(particles, springs[k]) # springs[k].length

\* C10: after Particle.update on an unpinned particle y is at most 590, and
\* when the floor clamp fires (the integrated y exceeds 590) y is 590 and the
\* implied vertical velocity y - oldy is -0.8 times the vertical velocity vy
\* with which the particle moved into the floor, up to fixed-point rounding.
C10_FloorClamp ==
    [][(sbTicks' = sbTicks + 1 /\ ~particles[1].isPinned) =>
        LET p == particles[1]
            q == particles'[1]
            vy == RDiv((p.y - p.oldy) * 99, 100)
        IN  /\ q.y <= 59000
            /\ p.y + vy + 13 > 59000 =>
                  /\ q.y = 59000
                  /\ Abs(100 * (q.y - q.oldy) + 80 * vy) <= 50
    ]_vars

\* C10: a particle that moved into the floor has been clamped and bounces upwards
C10_Witness ==
    /\ op = "Particle.update"
    /\ particles[1].y = 59000
    /\ particles[1].oldy > 59000 + 1000

-----------------------------------------------------------------------------
(* Claims about the Fourier engine                                         *)

PointerEnd == {"inputEnd", "mouseleave"}

\* C4: the state changes only along IDLE -> DRAWING (pointer-down),
\* DRAWING -> COMPUTING (pointer-up or pointer-leave, at least 6 points),
\* DRAWING -> IDLE (pointer-up or pointer-leave, fewer than 6 points),
\* COMPUTING -> ANIMATING (computeDFT) and ANIMATING -> DRAWING (pointer-down,
\* which discards drawing, fourierX and path, restarts the drawing at the
\* pointer-down point and sets time to 0); each of these events does take its
\* transition, and no other event changes the state.
C4_Transitions ==
    [][/\ state' # state =>
            \/ state = "IDLE" /\ state' = "DRAWING" /\ op' = "inputStart"
            \/ state = "DRAWING" /\ state' = "COMPUTING" /\ op' \in PointerEnd
                  /\ Len(drawing) >= 6
            \/ state = "DRAWING" /\ state' = "IDLE" /\ op' \in PointerEnd
                  /\ Len(drawing) < 6
            \/ state = "COMPUTING" /\ state' = "ANIMATING" /\ op' = "computeDFT"
            \/ state = "ANIMATING" /\ state' = "DRAWING" /\ op' = "inputStart"
       /\ (op' = "inputStart" /\ state \in {"IDLE", "ANIMATING"}) =>
            /\ state' = "DRAWING"
            /\ Len(drawing') = 1 /\ fourierX' = <<>> /\ path' = <<>> /\ time' = 0
       /\ (op' \in PointerEnd /\ state = "DRAWING") =>
            state' = IF Len(drawing) >= 6 THEN "COMPUTING" ELSE "IDLE"
       /\ op' = "computeDFT" => state = "COMPUTING" /\ state' = "ANIMATING"
      ]_vars

\* a pointer-down has just restarted the drawing out of ANIMATING (an animate
\* callback of the interrupted animation is still pending)
C4_Witness ==
    /\ state = "DRAWING" /\ op = "inputStart" /\ Len(drawing) = 1
    /\ \E i \in 1..Len(rafQueue) : rafQueue[i] = "animate"

\* C5: a drawing that ends (pointer-up or pointer-leave in DRAWING) with fewer
\* than 6 points sends the engine to IDLE, schedules no computeDFT and leaves
\* fourierX empty; in IDLE no computeDFT is pending and fourierX is empty; and
\* computeDFT only ever runs on a drawing of at least 6 points.
C5_ShortDrawingGoesIdle ==
    /\ [](state = "IDLE" => timers = 0 /\ fourierX = <<>>)
    /\ [][/\ (op' \in PointerEnd /\ state = "DRAWING" /\ Len(drawing) < 6) =>
               state' = "IDLE" /\ timers' = 0 /\ fourierX' = <<>>
          /\ op' = "computeDFT" => Len(drawing) >= 6 /\ Len(fourierX') >= 6
         ]_vars

\* a drawing of 5 points has just ended
C5_Witness ==
    state = "IDLE" /\ op \in PointerEnd /\ Len(drawing) = 5 /\ fourierX = <<>>

\* C8: while ANIMATING a frame advances the reconstruction time exactly once,
\* by 2*pi/N (or wraps it to 0 past 2*pi).
C8_OneAdvancePerFrame ==
    [][(op' = "frame" /\ state = "ANIMATING") =>
          LET t1 == time + RDiv(TwoPiU, Len(fourierX))
          IN  time' = IF PastPeriod(t1, Len(fourierX)) THEN 0 ELSE t1
      ]_vars

\* C8: there is never more than one pending animate() callback.
C8_SingleAnimateChain ==
    Cardinality({i \in 1..Len(rafQueue) : rafQueue[i] = "animate"}) <= 1

\* C18 (as stated): while ANIMATING with N components and one animate() chain,
\* each frame advances time by 2 * pi / N starting from 0; the frame that makes
\* the N-th increment resets time to 0 and empties the path; the path never
\* holds more than N points.
C18_ResetAfterN ==
    [][(op' = "frame" /\ state = "ANIMATING" /\ rafQueue = <<"animate">>) =>
          LET N == Len(fourierX)
              dt == RDiv(TwoPiU, N)
          IN  /\ Len(path') <= N
              /\ IF time = (N - 1) * dt
                 THEN time' = 0 /\ path' = <<>>
                 ELSE time' = time + dt
      ]_vars

\* C18 (what the code does for the N explored, none of them in
\* SumExceedsPeriod): the N-th increment leaves time at N * (2 * pi / N) with a
\* full path, and it is the frame after that, the one making increment N + 1,
\* that resets time to 0 and empties the path; the path never holds more than N
\* points.
C18_ResetAfterNPlusOne ==
    [][(op' = "frame" /\ state = "ANIMATING" /\ rafQueue = <<"animate">>) =>
          LET N == Len(fourierX)
              dt == RDiv(TwoPiU, N)
          IN  /\ Len(path') <= N
              /\ IF time = N * dt
                 THEN time' = 0 /\ path' = <<>>
                 ELSE time' = time + dt /\ path' # <<>>
      ]_vars

\* N increments have been made and time has not been reset: the path is full
C18_Witness ==
    /\ state = "ANIMATING" /\ op = "frame" /\ rafQueue = <<"animate">>
    /\ time = Len(fourierX) * RDiv(TwoPiU, Len(fourierX))
    /\ Len(path) = Len(fourierX)

\* C20: applyExplosion(x, y) changes only oldx and oldy, and only of particles
\* strictly closer than 150 px to (x, y): x, y and isPinned of every particle
\* are unchanged, and a particle at distance 150 px or more is unchanged.
C20_OnlyOldPositionWithinBlast ==
    [][op' = "applyExplosion" =>
          /\ Len(particles') = Len(particles)
          /\ \A i \in 1..Len(particles) :
                /\ particles'[i].x = particles[i].x
                /\ particles'[i].y = particles[i].y
                /\ particles'[i].isPinned = particles[i].isPinned
                /\ Hypot(particles[i].x - blastAt'.x, particles[i].y - blastAt'.y) >= BlastRadius
                      => particles'[i] = particles[i]
      ]_vars

\* an explosion above the top-left particle of the fresh jelly has pushed that
\* particle (60 px away) and left the bottom-right one (more than 150 px away)
\* as it was
C20_Witness ==
    /\ op = "applyExplosion" /\ sbClicks = 1 /\ blastAt = [x |-> 25000, y |-> 4000]
    /\ particles[1].oldy # particles[1].y
    /\ particles[1].x = JellyStartX /\ particles[1].y = JellyStartY
    /\ particles[JellyCols * JellyRows].oldx = particles[JellyCols * JellyRows].x
    /\ particles[JellyCols * JellyRows].oldy = particles[JellyCols * JellyRows].y

\* the two endpoints of spring k are at the same place
Coincident(ps, k) ==
    ps[springs[k].p1].x = ps[springs[k].p2].x /\ ps[springs[k].p1].y = ps[springs[k].p2].y

\* C21: in a relaxation pass, Spring.update on a spring whose endpoints coincide
\* changes neither endpoint and does not stop the pass: every particle is
\* still there, and each other spring of the pass (none sharing an endpoint
\* with another) has had its update.
C21_CoincidentSkipped ==
    [][op' = "springs.update" =>
          /\ Len(particles') = Len(particles)
          /\ \A k \in 1..Len(springs) :
                LET i == springs[k].p1
                    j == springs[k].p2
                IN  IF Coincident(particles, k)
                    THEN particles'[i] = particles[i] /\ particles'[j] = particles[j]
                    ELSE /\ particles'[i] = SpringUpdate(particles, springs[k])[i]
                         /\ particles'[j] = SpringUpdate(particles, springs[k])[j]
      ]_vars

\* a first pass has run with the middle spring's endpoints coincident: they are
\* where they were, and the springs before and after it have moved theirs
C21_Witness ==
    /\ op = "springs.update" /\ sbTicks = 1 /\ Len(springs) = 3
    /\ Coincident(particles, 2)
    /\ particles[3].x = particles[3].oldx /\ particles[4].y = particles[4].oldy
    /\ particles[1].x # particles[1].oldx
    /\ particles[6].x # particles[6].oldx

\* C22: in every reachable state a particle is pinned if and only if it is the
\* dragged particle (so at most one particle is pinned, and none after a
\* mouseup), for any sequence of mousedown, mousemove and mouseup events.
C22_PinnedIffDragged ==
    \A i \in 1..Len(particles) : particles[i].isPinned <=> i = draggedParticle

\* C22 (the part that holds): the dragged particle, if any, is pinned.
C22_DraggedIsPinned ==
    draggedParticle # 0 => particles[draggedParticle].isPinned

\* a mouseup has ended a drag and a particle is still pinned
C22_Witness ==
    /\ op = "mouseup" /\ draggedParticle = 0
    /\ \E i \in 1..Len(particles) : particles[i].isPinned

\* C23: the Fourier engine never has more than one frame callback (animate or
\* drawLoop) pending with the host.
C23_OneCallbackPending ==
    Len(rafQueue) <= 1

\* two drawLoop callbacks are pending after a theme change outside ANIMATING
C23_Witness ==
    op = "themeChanged" /\ state # "ANIMATING" /\ rafQueue = <<"drawLoop", "drawLoop">>

\* C24: no point is appended to drawing while the state is COMPUTING or
\* ANIMATING (a pointer-down in ANIMATING starts a new drawing and leaves the
\* state DRAWING), so the sequence the compute timer hands to the DFT is the one
\* collected in DRAWING.
C24_NoAppendOutsideDrawing ==
    [][(state \in {"COMPUTING", "ANIMATING"} /\ state' # "DRAWING") => drawing' = drawing]_vars

\* C24 (the part that holds): inputMove appends nothing outside DRAWING, and
\* computeDFT transforms drawing as it is when the timer fires.
C24_MoveAppendsOnlyInDrawing ==
    [][/\ (op' = "inputMove" /\ state # "DRAWING") => drawing' = drawing
       /\ op' = "computeDFT" => Len(fourierX') = Len(drawing) /\ drawing' = drawing]_vars

\* the DFT has run on a drawing that grew by a point while COMPUTING
C24_Witness ==
    /\ op = "computeDFT" /\ state = "ANIMATING"
    /\ Len(fourierX) = MinPoints + 2 /\ isMouseDown

\* a particle is inside the box 10 <= x <= 790, 10 <= y <= 590
InsideBox(p) == p.x >= LeftX /\ p.x <= RightX /\ p.y >= CeilY /\ p.y <= FloorY

\* C25: after every complete solver tick (integration pass and all the
\* relaxation passes) every unpinned particle is inside the box.
C25_InsideAfterTick ==
    op = "update" => \A i \in 1..Len(particles) : ~particles[i].isPinned => InsideBox(particles[i])

\* a tick has left an unpinned particle of the bottom row below the floor line
C25_Witness ==
    /\ op = "update"
    /\ \E i \in 1..Len(particles) : ~particles[i].isPinned /\ particles[i].y > FloorY

\* C26: whenever the engine is ANIMATING, fourierX has as many components as
\* drawing has points, at least 6; their freq labels are a permutation of
\* 0..N-1 and their amplitudes are in non-increasing order (so 2 * pi /
\* fourierX.length has a non-zero divisor).
C26_SpectrumWellFormed ==
    state = "ANIMATING" =>
        LET N == Len(fourierX)
        IN  /\ N = Len(drawing)
            /\ N >= 6
            /\ {fourierX[i].freq : i \in 1..N} = 0..(N - 1)
            /\ \A i \in 1..(N - 1) : fourierX[i].amp >= fourierX[i + 1].amp

\* the engine animates a spectrum that the sort has reordered, with distinct
\* amplitudes at both ends
C26_Witness ==
    /\ state = "ANIMATING" /\ op = "frame"
    /\ \E i \in 1..Len(fourierX) : fourierX[i].freq # i - 1
    /\ fourierX[1].amp > fourierX[Len(fourierX)].amp

\* the live cells among the 8 neighbours of (i, j) on the torus
LiveNeighbors(g, i, j) ==
    Cardinality({ c \in GolCells :
                    /\ c # <<i, j>>
                    /\ (c[1] - i) % GolCols \in {0, 1, GolCols - 1}
                    /\ (c[2] - j) % GolRows \in {0, 1, GolRows - 1}
                    /\ g[c[1]][c[2]] = 1 })

\* C27: GameOfLife.update computes every cell of the new generation from the
\* previous generation alone: a dead cell with exactly 3 live neighbours is
\* born, a live cell with 2 or 3 survives, every other cell is dead, the 8
\* neighbours taken on the torus; every cell is 0 or 1.
C27_ConwayOnTorus ==
    [][op' = "gol.update" =>
          \A c \in GolCells :
              LET n == LiveNeighbors(grid, c[1], c[2])
                  was == grid[c[1]][c[2]]
                  now == grid'[c[1]][c[2]]
              IN  /\ now \in {0, 1}
                  /\ now = 1 <=> (was = 0 /\ n = 3) \/ (was = 1 /\ n \in {2, 3})
      ]_vars

\* an update has seen a birth across the edge of the grid: cell (0, 0), with
\* its three live neighbours in the last column and the last row, both dead
\* before the update
C27_Witness ==
    /\ op = "gol.update" /\ golGen = 1
    /\ grid[0][0] = 1 /\ nextGrid[0][0] = 0
    /\ nextGrid[GolCols - 1][0] = 1 /\ nextGrid[0][GolRows - 1] = 1
    /\ nextGrid[GolCols - 1][GolRows - 1] = 1

\* C28: applyExplosion never divides by zero: the mousedown handler calls it
\* only when no particle is closer than 50 px to the click, so every particle
\* it perturbs (changes oldx or oldy of) is at a distance d >= 50 > 0 from the
\* click point.
C28_BlastDistancePositive ==
    [][op' = "mousedown" =>
          \A i \in 1..Len(particles) :
              (particles'[i].oldx # particles[i].oldx \/ particles'[i].oldy # particles[i].oldy) =>
                  LET d == Hypot(particles[i].x - blastAt'.x, particles[i].y - blastAt'.y)
                  IN  d >= GrabRadius /\ d > 0
      ]_vars

\* a mousedown at exactly 50 px from the nearest particle has set off the
\* explosion, which pushed that particle
C28_Witness ==
    /\ op = "mousedown" /\ draggedParticle = 0
    /\ blastAt = [x |-> JellyStartX - 3000, y |-> JellyStartY - 4000]
    /\ Hypot(particles[1].x - blastAt.x, particles[1].y - blastAt.y) = GrabRadius
    /\ particles[1].oldx # particles[1].x

\* C29: in every reachable state of the soft-body solver all springs carry the
\* same stiffness, and it is the solver's stiffness parameter, right after
\* construction as well as after a slider change.
C29_StiffnessUniform ==
    \A k \in 1..Len(springs) : springs[k].stiffness = stiffness

\* C29 (the part that holds): the springs all carry one stiffness, and once
\* the slider has been moved it is the solver's.
C29_UniformAfterSlider ==
    /\ \A k \in 1..Len(springs) : springs[k].stiffness = springs[1].stiffness
    /\ stiffness # InitStiffness => C29_StiffnessUniform

\* a tick has run on the jelly as constructed: the springs work with 0.8 while
\* the solver's parameter says 0.5
C29_Witness ==
    /\ op = "update" /\ stiffness = InitStiffness
    /\ \A k \in 1..Len(springs) : springs[k].stiffness = SpringStiffness

\* C30: after every PIDSimulation.update call with dt in (0, 0.1] the loops
\* that wrap system.angle have ended and the angle is in [-pi, pi], whatever
\* the (finite) setpoint and gains.
C30_AngleWrapped ==
    (op \in {"update", "animate"} /\ lastDt > 0 /\ lastDt <= MaxDt /\ pidNaN = {}) =>
        /\ ~wrapLoop.running
        /\ angle >= -PiM /\ angle <= PiM

\* update(0.1) with kp = 5e16 is in the first wrap loop with an angle above 2^56
C30_Witness ==
    /\ op = "update" /\ lastDt = MaxDt /\ wrapLoop.running
    /\ wrapLoop.raw > AbsorbAbove /\ gains.kp = 100 * 5

\* C15: for a sequence of N points, dft followed by the reconstruction sum
\* (sum over the components of amp * (cos, sin)(freq * t + phase)) at the sample
\* time t_n = 2 * pi * n / N gives back the n-th point, for every n in 0..N-1,
\* within two pixels (positions in thousandths of a pixel; the tolerance is that
\* of SinU, CosU and Atan2U, which are accurate to about two parts in a thousand).
C15_RoundTrip ==
    op = "drawEpicycles" =>
        \A n \in 0..(Len(drawing) - 1) :
            time = SampleTime(n, Len(drawing)) =>
                /\ Abs(path[1].x - 1000 * drawing[n + 1].x) <= 2000
                /\ Abs(path[1].y - 1000 * drawing[n + 1].y) <= 2000

\* the sum has been evaluated at t_1 for a drawing whose points 1 and 3 differ
C15_Witness ==
    /\ op = "drawEpicycles" /\ Len(fourierX) = Len(drawing)
    /\ time = SampleTime(1, Len(drawing)) /\ drawing[2] # drawing[Len(drawing)]

-----------------------------------------------------------------------------
(* Claims about the PID engine                                             *)

\* C6 (as stated): the error PIDSimulation.update hands to the PID, which
\* PID.update stores in prevError, is in the half-open interval (-pi, pi] for
\* every setpoint and plant angle in [-pi, pi].
C6_ErrorHalfOpen ==
    op = "update" => prevError > -PiM /\ prevError <= PiM

\* C6 (amended): for every setpoint and plant angle in [-pi, pi] the wrapped
\* error is in the closed interval [-pi, pi]; -pi itself is left as it is.
C6_ErrorClosed ==
    op = "update" => prevError >= -PiM /\ prevError <= PiM

\* an update has handed the PID an error of exactly -pi
C6_Witness ==
    op = "update" /\ historyLen = 1 /\ prevError = -PiM

\* C7: the dt of every PID.update call is greater than 0 and at most 0.1 s, and
\* no field of the controller or the plant becomes NaN.
C7_DtPositive ==
    op = "animate" => lastDt > 0 /\ lastDt <= MaxDt /\ pidNaN = {}

\* C12: from a freshly reset PID with kp = kd = 0 and ki > 0, the n-th of n
\* consecutive PID.update calls with the same error e and the same dt > 0
\* returns ki * e * n * dt (output in thousandths, ki in hundredths, dt in ms).
C12_IntegralLaw ==
    (op = "PID.update" /\ gains.kp = 0 /\ gains.kd = 0 /\ gains.ki > 0) =>
        controlOutput * 100000 = gains.ki * pidInput * pidCalls * lastDt

\* the second of two consecutive calls has returned a non-zero output
C12_Witness ==
    /\ op = "PID.update" /\ gains.kp = 0 /\ gains.kd = 0 /\ gains.ki > 0
    /\ pidCalls = 2 /\ controlOutput # 0 /\ integral * 1000 = 2 * prevError * lastDt

\* C13: PID.reset() sets integral and prevError to 0 and leaves kp, ki and kd
\* unchanged; updateGains(p, i, d) leaves the controller with exactly the gains
\* (p, i, d) and with integral = prevError = 0.
C13_ResetKeepsGains ==
    [][/\ PIDUnitReset => (integral' = 0 /\ prevError' = 0 /\ gains' = gains)
       /\ \A g \in GainInputs :
             UpdateGains(g) => (gains' = g /\ integral' = 0 /\ prevError' = 0)
       /\ op' = "updateGains" => (gains' \in GainInputs /\ integral' = 0 /\ prevError' = 0)
      ]_vars

\* updateGains has replaced the gains of a controller whose accumulators were
\* not zero (the latest update left a non-zero output)
C13_Witness ==
    /\ op = "updateGains" /\ controlOutput # 0 /\ pidNaN = {}
    /\ integral = 0 /\ prevError = 0 /\ gains = DefaultGains

-----------------------------------------------------------------------------
(* Claims about the Lorenz attractor                                       *)

\* C14: every change of sigma, rho or beta is made by updateParams, which before
\* any further step puts the state at (0.1, 0, 0) and empties the history; so
\* the history and the state are always the trajectory of the current
\* parameters from the seed: no step runs with new parameters on a state
\* carried over from the old ones.
C14_ParamChangeResets ==
    /\ [][(lorenzParams' # lorenzParams \/ op' = "updateParams") =>
             (lorenz' = LorenzSeed /\ points' = <<>>)]_vars
    /\ [](/\ \A i \in 1..Len(points) :
                points[i] = LorenzStep(lorenzParams,
                                       IF i = 1 THEN LorenzSeed ELSE points[i - 1], LorenzDt)
          /\ lorenz = IF points = <<>> THEN LorenzSeed ELSE points[Len(points)])

\* a frame has stepped the system after a parameter change that followed an
\* earlier frame: the history holds the five new points only
C14_Witness ==
    /\ op = "lorenz.animate" /\ lorenzSteps = 2 * StepsPerFrame
    /\ Len(points) = StepsPerFrame /\ lorenzParams # LorenzDefaults

\* C19: the history never holds more than 2000 entries; each step appends the
\* new state as the last entry and, when the length would exceed 2000, drops
\* the oldest entry and nothing else.
C19_HistoryBounded ==
    /\ [](Len(points) <= LorenzMaxPoints)
    /\ [][op' = "step" =>
             /\ points'[Len(points')] = lorenz'
             /\ points' = IF Len(points) < LorenzMaxPoints
                          THEN Append(points, lorenz')
                          ELSE Append(Tail(points), lorenz')
         ]_vars

\* a step has run on a full history
C19_Witness ==
    op = "step" /\ lorenzSteps > LorenzMaxPoints /\ Len(points) = LorenzMaxPoints

-----------------------------------------------------------------------------
(* Claims about the double pendulum                                        *)

\* C1: in both classes, while a bob is held (dragging is 'bob1' or 'bob2') a
\* frame's update(dt) leaves a1, a2, a1_v and a2_v unchanged, whatever the
\* value of isPaused.
C1_DragSuspendsIntegration ==
    [][(op' = "pendulum.animate" /\ dragging # "none") =>
          a1' = a1 /\ a2' = a2 /\ a1_v' = a1_v /\ a2_v' = a2_v
      ]_vars

\* C1 restricted to the RK4 class
C1_DragSuspendsIntegrationRK4 ==
    [][(op' = "pendulum.animate" /\ dragging # "none" /\ variant = "RK4") =>
          pendSteps' = 0 /\ a1' = a1 /\ a2' = a2 /\ a1_v' = a1_v /\ a2_v' = a2_v
      ]_vars

\* C1, second half: the frame after a release (mouseup or mouseleave) with
\* dt > 0 runs at least one integration step
C1_ResumesOnRelease ==
    [][(op' = "pendulum.animate" /\ op = "handleMouseUp" /\ dragging = "none"
          /\ ~isPaused /\ (pendLastTime = 0 \/ pendLastTime' > pendLastTime))
          => pendSteps' >= 1
      ]_vars

\* C17 (as stated): for every dt in (0, 0.016] update(dt) of the RK4 class runs
\* exactly ceil(10 * dt / 0.005) steps, each of size at most 0.005, whose sizes
\* sum to 10 * dt (up to the rounding of the division, one microsecond a step).
C17_ExactCeiling ==
    op = "pendulum.update" =>
        /\ pendSteps = (pendDt * TimeScale + MaxStepSize * 1000 - 1) \div (MaxStepSize * 1000)
        /\ pendSubDt <= MaxStepSize * 1000
        /\ pendDt * TimeScale - pendSteps * pendSubDt \in 0..(pendSteps - 1)

\* C17 (amended): update(dt) runs Math.ceil(10 * dt / 0.005) steps as double
\* arithmetic evaluates it: at least one step, the exact ceiling or one more
\* (one more where the quotient is a whole number that the rounding of 10 * dt
\* lifts, as for dt = 0.0035 and dt = 0.007); each step is of size at most
\* 0.005 and the sizes sum to 10 * dt.
C17_CeilingOrOneMore ==
    op = "pendulum.update" =>
        LET exact == (pendDt * TimeScale + MaxStepSize * 1000 - 1) \div (MaxStepSize * 1000)
        IN  /\ pendSteps >= 1
            /\ pendSteps \in {exact, exact + 1}
            /\ (pendDt * TimeScale) % (MaxStepSize * 1000) # 0 => pendSteps = exact
            /\ pendSubDt <= MaxStepSize * 1000
            /\ pendDt * TimeScale - pendSteps * pendSubDt \in 0..(pendSteps - 1)

\* update(0.007) has run 15 steps on a swinging pendulum
C17_Witness ==
    op = "pendulum.update" /\ pendDt = 7000 /\ pendSteps = 15 /\ a1 # HalfPiU /\ a1 # 0

\* C11: in both classes reset() leaves a1 = a2 = a1_v = a2_v = 0 and isPaused
\* set, from any prior state; afterwards a frame changes none of the four
\* state variables while the simulation is still paused and no bob is held,
\* nor while the state is still the reset state.
C11_ResetZeroesAndHolds ==
    [][/\ op' = "reset" =>
            a1' = 0 /\ a2' = 0 /\ a1_v' = 0 /\ a2_v' = 0 /\ isPaused'
       /\ (op' = "pendulum.animate" /\ isPaused /\ dragging = "none") =>
            UNCHANGED <<a1, a2, a1_v, a2_v>>
       /\ (op' = "pendulum.animate" /\ isPaused
              /\ a1 = 0 /\ a2 = 0 /\ a1_v = 0 /\ a2_v = 0) =>
            UNCHANGED <<a1, a2, a1_v, a2_v>>
      ]_vars

\* a frame has run after a reset: the trace was emptied and holds one new point
C11_Witness ==
    /\ op = "pendulum.animate" /\ pendFrames = 2 /\ traceLen = 1
    /\ isPaused /\ a1 = 0 /\ a2 = 0 /\ a1_v = 0 /\ a2_v = 0

====
